---- MODULE Spec2Model ----
(***************************************************************************)
(* A model of donate/models.py (WeVoteServer): the coupon catalog          *)
(* (OrganizationSubscriptionPlans), the donation plan definitions kept     *)
(* locally and in the payment gateway, the subscription creation workflow, *)
(* the refund folding of the donation journal, the invoice cache, the      *)
(* journal queries, the end of a subscription and the seeding of the       *)
(* catalog.                                                                *)
(*                                                                         *)
(* Every table starts empty (a fresh database).  One action models one     *)
(* call of one DonationManager method, from its first line to its return   *)
(* (or to the exception it lets escape).  lastCall records the call the    *)
(* last action made: its arguments, what it returned, the gateway calls it *)
(* issued.  folds counts the refund folds, which the model bounds.         *)
(* inflight holds what a webhook handler has read when the handlers are    *)
(* run step by step, one beside the other.                                 *)
(***************************************************************************)
EXTENDS Integers, Sequences, FiniteSets, TLC

VARIABLES
    coupons,        \* OrganizationSubscriptionPlans rows, in insertion order (id = index)
    plans,          \* DonationPlanDefinition rows, in insertion order
    stripePlans,    \* the gateway's plans: a set of [id, amount]
    journal,        \* DonationJournal rows, in insertion order (id = index)
    invoices,       \* DonationInvoice rows, in insertion order
    folds,          \* how many times a refund was folded into a journal row
    inflight,       \* the journal row each running webhook handler has read and not yet saved
    lastCall        \* the call made by the last action

vars == <<coupons, plans, stripePlans, journal, invoices, folds, inflight, lastCall>>

\* ---------------------------------------------------------------- bounds

MaxCoupons == 3
MaxStamp == 2
MaxPlanCoupons == 2
MaxJournal == 2
MaxFolds == 4
MaxInvoices == 2
MaxSeedCoupons == 5

\* ---------------------------------------------------------------- values

\* Python's None for a string or a row column
None == "None"

\* An optional datetime: <<>> is None, <<d>> is the datetime d
NoDate == <<>>

PROFESSIONAL_MONTHLY == "PROFESSIONAL_MONTHLY"
PROFESSIONAL_YEARLY == "PROFESSIONAL_YEARLY"
ENTERPRISE_MONTHLY == "ENTERPRISE_MONTHLY"
ENTERPRISE_YEARLY == "ENTERPRISE_YEARLY"

\* 'MONTHLY' in plan_type_enum, over the plan types of ORGANIZATION_PLAN_OPTIONS
HasMonthly(plan_type_enum) ==
    plan_type_enum \in {PROFESSIONAL_MONTHLY, ENTERPRISE_MONTHLY}

\* datetimes: year, month, day, hour
DateTime(y, m, d, h) == [year |-> y, month |-> m, day |-> d, hour |-> h]

\* convert_date_to_date_as_integer: the date as the integer YYYYMMDD
ConvertDateToDateAsInteger(d) == d.year * 10000 + d.month * 100 + d.day

\* datetime.now().date(): the datetime without its time of day
DateOf(d) == [year |-> d.year, month |-> d.month, day |-> d.day]

\* the maximum of a non-empty set of integers
SetMax(S) == CHOOSE x \in S : \A y \in S : y <= x

\* the call of no method: the state after construction
NoCall == [op |-> "none"]

\* the webhook handlers that may run at the same time: the one of a refund and
\* the one of a refunded charge
Handlers == {"refund", "refund_completed"}

\* no handler is between its .get() and its .save()
NoneInFlight == [h \in Handlers |-> <<>>]

\* --------------------------------------------------------- coupon catalog

\* OrganizationSubscriptionPlans.objects.filter(plan_type_enum=, coupon_code=)
CouponFilter(plan_type_enum, coupon_code) ==
    {i \in DOMAIN coupons :
        /\ coupons[i].plan_type_enum = plan_type_enum
        /\ coupons[i].coupon_code = coupon_code}

\* A plausible slip: the newest row is taken to be the one inserted last
CouponQuerysetFirstByInsertion(plan_type_enum, coupon_code) ==
    LET m == CouponFilter(plan_type_enum, coupon_code)
    IN  {i \in m : \A j \in m : j <= i}

\* .order_by('-plan_created_at')[0]: the rows the database may return first,
\* any one of those with the greatest plan_created_at (the order among equal
\* timestamps is the database's choice)
CouponQuerysetFirst(plan_type_enum, coupon_code) ==
    LET m == CouponFilter(plan_type_enum, coupon_code)
    IN  {i \in m : \A j \in m : coupons[j].plan_created_at <= coupons[i].plan_created_at}

\* The admin interface never changes a row, it only inserts a new one
InsertCoupon(row) ==
    /\ Len(coupons) < MaxCoupons
    /\ coupons' = Append(coupons, row)
    /\ lastCall' = [op |-> "insert_coupon"]
    /\ UNCHANGED <<plans, stripePlans, journal, folds, invoices, inflight>>

\* validate_coupon's expiry test
StillValid(expires, now) ==
    IF expires = NoDate
    THEN TRUE
    ELSE LET today_date_as_integer == ConvertDateToDateAsInteger(DateOf(now))
             expires_as_integer == ConvertDateToDateAsInteger(expires[1])
         IN  today_date_as_integer < expires_as_integer

\* validate_coupon's results when no row matches
ValidateNoMatch ==
    [coupon_match_found |-> FALSE, coupon_still_valid |-> FALSE,
     monthly_price_stripe |-> 0, annual_price_stripe |-> 0,
     status |-> "COUPON_MATCH_NOT_FOUND ", success |-> FALSE]

\* validate_coupon's results for the row it took
ValidateMatch(coupon, plan_type_enum, now) ==
    [coupon_match_found |-> TRUE,
     coupon_still_valid |-> StillValid(coupon.coupon_expires_date, now),
     monthly_price_stripe |->
        IF HasMonthly(plan_type_enum) THEN coupon.monthly_price_stripe ELSE 0,
     annual_price_stripe |->
        IF HasMonthly(plan_type_enum) THEN 0 ELSE coupon.annual_price_stripe,
     status |-> "COUPON_MATCH_FOUND ", success |-> TRUE]

ValidateCoupon(plan_type_enum, coupon_code, now) ==
    /\ \/ /\ CouponFilter(plan_type_enum, coupon_code) = {}
          /\ lastCall' = [op |-> "validate_coupon", plan_type_enum |-> plan_type_enum,
                          coupon_code |-> coupon_code, now |-> now, coupon_id |-> 0,
                          results |-> ValidateNoMatch]
       \/ \E i \in CouponQuerysetFirst(plan_type_enum, coupon_code) :
            lastCall' = [op |-> "validate_coupon", plan_type_enum |-> plan_type_enum,
                         coupon_code |-> coupon_code, now |-> now, coupon_id |-> i,
                         results |-> ValidateMatch(coupons[i], plan_type_enum, now)]
    /\ UNCHANGED <<coupons, plans, stripePlans, journal, folds, invoices, inflight>>

\* get_coupon_price's return values, <<price, org_subs_id>>: those of a first
\* row of the query, or <<-1, -1>> when coupon_queryset[0] raises
CouponPrices(plan_type_enum, coupon_code) ==
    IF CouponFilter(plan_type_enum, coupon_code) = {}
    THEN {<<-1, -1>>}
    ELSE {<<IF HasMonthly(plan_type_enum)
            THEN coupons[i].monthly_price_stripe
            ELSE coupons[i].annual_price_stripe, i>> :
          i \in CouponQuerysetFirst(plan_type_enum, coupon_code)}

GetCouponPrice(plan_type_enum, coupon_code) ==
    /\ \E r \in CouponPrices(plan_type_enum, coupon_code) :
         lastCall' = [op |-> "get_coupon_price", plan_type_enum |-> plan_type_enum,
                      coupon_code |-> coupon_code, price |-> r[1], org_subs_id |-> r[2]]
    /\ UNCHANGED <<coupons, plans, stripePlans, journal, folds, invoices, inflight>>

\* ------------------------------------------------------- coupon seeding

\* plan_created_at's default, tm.now, for a row inserted into table: the clock
\* of the catalog advances with every insert
InsertTime(table) == Len(table) + 1

\* the row get_or_create creates for a seed: the defaults of
\* create_initial_coupons, plan_created_at by its default (the time of the
\* insert), no expiry
SeedRow(coupon_code, plan_type_enum, monthly_price_stripe, now) ==
    [coupon_code |-> coupon_code, plan_type_enum |-> plan_type_enum,
     plan_created_at |-> now, coupon_expires_date |-> NoDate,
     monthly_price_stripe |-> monthly_price_stripe, annual_price_stripe |-> 0]

\* the three seeds of create_initial_coupons, in the order of its three blocks:
\* <<plan_type_enum of the filter, coupon_code, plan_type_enum of the
\* get_or_create, monthly_price_stripe>>.  The filter of the first block asks
\* for PROFESSIONAL_MONTHLY, its get_or_create for ENTERPRISE_MONTHLY.
Seeds ==
    <<<<PROFESSIONAL_MONTHLY, "DEFAULT-ENTERPRISE_MONTHLY", ENTERPRISE_MONTHLY, 1667>>,
      <<PROFESSIONAL_MONTHLY, "DEFAULT-PROFESSIONAL_MONTHLY", PROFESSIONAL_MONTHLY, 1250>>,
      <<PROFESSIONAL_MONTHLY, "25OFF", PROFESSIONAL_MONTHLY, 1250>>>>

\* the rows of table with the pair (plan_type_enum, coupon_code)
SeedMatches(table, plan_type_enum, coupon_code) ==
    {i \in DOMAIN table :
        /\ table[i].plan_type_enum = plan_type_enum
        /\ table[i].coupon_code = coupon_code}

\* one block of create_initial_coupons on the catalog t.table: when the filter
\* finds nothing, get_or_create(coupon_code=, plan_type_enum=, defaults=) finds
\* the one row of the pair, creates it, or raises MultipleObjectsReturned, which
\* nothing catches.  A block after the one that raised does not run.
SeedBlock(t, seed) ==
    LET found == SeedMatches(t.table, seed[3], seed[2])
    IN  IF t.raised # "" \/ SeedMatches(t.table, seed[1], seed[2]) # {} THEN t
        ELSE IF Cardinality(found) > 1
        THEN [table |-> t.table, raised |-> "MultipleObjectsReturned"]
        ELSE IF Cardinality(found) = 1 THEN t
        ELSE [table |-> Append(t.table, SeedRow(seed[2], seed[3], seed[4], InsertTime(t.table))),
              raised |-> ""]

\* the catalog after create_initial_coupons, and the exception that escaped it
InitialCoupons ==
    SeedBlock(SeedBlock(SeedBlock([table |-> coupons, raised |-> ""],
                                  Seeds[1]), Seeds[2]), Seeds[3])

CreateInitialCoupons ==
    /\ coupons' = InitialCoupons.table
    /\ lastCall' = [op |-> "create_initial_coupons", raised |-> InitialCoupons.raised]
    /\ UNCHANGED <<plans, stripePlans, journal, invoices, folds, inflight>>

\* .order_by('-plan_created_at') over the rows m of table: the orders the
\* database may give, the order among equal timestamps being its choice
RECURSIVE PlanListOrders(_, _)
PlanListOrders(table, m) ==
    IF m = {} THEN {<<>>}
    ELSE UNION {{<<i>> \o rest : rest \in PlanListOrders(table, m \ {i})} :
                i \in {i \in m : \A k \in m : table[k].plan_created_at <= table[i].plan_created_at}}

\* retrieve_subscription_plan_list: create_initial_coupons is called before the
\* try, what it raises escapes; subscription_plan_list is given by the ids of
\* its rows
RetrieveSubscriptionPlanList ==
    /\ coupons' = InitialCoupons.table
    /\ IF InitialCoupons.raised # ""
       THEN lastCall' = [op |-> "retrieve_subscription_plan_list",
                         raised |-> InitialCoupons.raised,
                         results |-> [success |-> FALSE, status |-> "",
                                      subscription_plan_list |-> <<>>]]
       ELSE \E list \in PlanListOrders(coupons', DOMAIN coupons') :
              lastCall' = [op |-> "retrieve_subscription_plan_list", raised |-> "",
                           results |->
                             [success |-> Len(list) > 0,
                              status |-> IF Len(list) > 0
                                         THEN " ORGANIZATIONAL_SUBSCRIPTION_PLANS_LIST_RETRIEVED "
                                         ELSE " NO_ORGANIZATIONAL_SUBSCRIPTION_PLAN_EXISTS ",
                              subscription_plan_list |-> list]]
    /\ UNCHANGED <<plans, stripePlans, journal, invoices, folds, inflight>>

\* ------------------------------------------- donation plan definitions

\* A plausible slip: the plan id is built without the amount
DonationPlanIdWithoutAmount(voter_we_vote_id, is_organization_plan, donation_amount) ==
    <<voter_we_vote_id, "-monthly-", IF is_organization_plan THEN "organization-" ELSE "">>

\* create_recurring_donation's donation_plan_id:
\* voter_we_vote_id + "-monthly-" + org_segment + str(donation_amount)
DonationPlanId(voter_we_vote_id, is_organization_plan, donation_amount) ==
    <<voter_we_vote_id, "-monthly-",
      IF is_organization_plan THEN "organization-" ELSE "", ToString(donation_amount)>>

\* the empty string, for a plan id (a plan id is the sequence of its parts)
EmptyId == <<>>

\* the row get_or_create looks up and, when it finds none, creates
\* (plan_name is the plan id; billing_interval, currency and
\* donation_plan_is_active are the same in every call)
PlanRow(voter_we_vote_id, donation_plan_id, base_cost, is_organization_plan, organization_we_vote_id, org_subs_id) ==
    [donation_plan_id |-> donation_plan_id, plan_name |-> donation_plan_id,
     base_cost |-> base_cost, billing_interval |-> "monthly", currency |-> "usd",
     donation_plan_is_active |-> TRUE,
     is_organization_plan |-> is_organization_plan,
     voter_we_vote_id |-> voter_we_vote_id,
     organization_we_vote_id |-> organization_we_vote_id,
     organization_subscription_plan_id |-> org_subs_id]

\* The storage layer's constraints on a new DonationPlanDefinition row:
\* voter_we_vote_id and organization_we_vote_id are unique (None excepted), and
\* base_cost is a PositiveIntegerField
ViolatesConstraint(row) ==
    \/ row.base_cost < 0
    \/ /\ row.voter_we_vote_id # None
       /\ \E i \in DOMAIN plans : plans[i].voter_we_vote_id = row.voter_we_vote_id
    \/ /\ row.organization_we_vote_id # None
       /\ \E i \in DOMAIN plans :
            plans[i].organization_we_vote_id = row.organization_we_vote_id

\* A plausible slip: the row is created without being looked up first
GetOrCreateWithoutGet(row) == IF ViolatesConstraint(row) THEN "IntegrityError" ELSE "created"

\* DonationPlanDefinition.objects.get_or_create(...): "found", "created",
\* "IntegrityError" (the create violates a constraint) or "Exception" (more than
\* one row found: DonationPlanDefinition.MultipleObjectsReturned is not the
\* DonationManager.MultipleObjectsReturned the method catches).  The storage
\* layer answers every query: its faults are not modelled
GetOrCreate(row) ==
    LET found == {i \in DOMAIN plans : plans[i] = row}
    IN  IF Cardinality(found) = 1 THEN "found"
        ELSE IF Cardinality(found) > 1 THEN "Exception"
        ELSE IF ViolatesConstraint(row) THEN "IntegrityError"
        ELSE "created"

\* stripe.Plan.retrieve(donation_plan_id) finds the plan (a missing plan raises
\* StripeError)
StripeHasPlan(donation_plan_id) == \E p \in stripePlans : p.id = donation_plan_id

\* stripe.Plan.create: "ok" (a plan with an id), "no_id" (a plan without one) or
\* "error" (StripeError); the gateway refuses an id it already holds and a
\* negative amount
StripePlanCreate(donation_plan_id, amount, gw) ==
    IF StripeHasPlan(donation_plan_id) \/ amount < 0 THEN "error" ELSE gw

\* if not positive_value_exists(stripe_plan_id) and not org_subs_already_exists
NeedsStripePlan(stripe_plan_id, org_subs_already_exists) ==
    /\ stripe_plan_id = EmptyId
    /\ ~org_subs_already_exists

\* A plausible slip: the caller's amount is kept for an organization plan
PricedAmountFromCaller(is_organization_plan, donation_amount, cp) ==
    <<donation_amount, IF is_organization_plan THEN cp[2] ELSE 0>>

\* <<donation_amount, org_subs_id>> after the coupon lookup of an organization
\* plan; cp is what get_coupon_price returned
PricedAmount(is_organization_plan, donation_amount, cp) ==
    IF is_organization_plan THEN cp ELSE <<donation_amount, 0>>

\* retrieve_or_create_recurring_donation_plan's try block, from its arguments
\* (a) and what get_coupon_price returned (cp): the coupon lookup of an
\* organization plan, get_or_create, stripe.Plan.retrieve and the except clauses
PlanTry(a, cp) ==
    LET priced == PricedAmount(a.is_organization_plan, a.donation_amount, cp)
        row == PlanRow(a.voter_we_vote_id, a.donation_plan_id, priced[1],
                       a.is_organization_plan, a.organization_we_vote_id, priced[2])
        goc == GetOrCreate(row)
    IN  CASE goc = "created" ->
               [goc |-> goc, donation_amount |-> priced[1],
                plans |-> Append(plans, row), success |-> TRUE,
                status |-> <<"SUBSCRIPTION_PLAN_CREATED_IN_DATABASE ">>,
                org_subs_already_exists |-> FALSE,
                stripe_plan_id |-> IF StripeHasPlan(a.donation_plan_id)
                                   THEN a.donation_plan_id ELSE EmptyId,
                calls |-> <<[api |-> "Plan.retrieve", id |-> a.donation_plan_id]>>]
          [] goc = "found" ->
               [goc |-> goc, donation_amount |-> priced[1],
                plans |-> plans, success |-> TRUE,
                status |-> <<"DONATION_PLAN_ALREADY_EXISTS_IN_DATABASE ">>,
                org_subs_already_exists |-> FALSE,
                stripe_plan_id |-> IF StripeHasPlan(a.donation_plan_id)
                                   THEN a.donation_plan_id ELSE EmptyId,
                calls |-> <<[api |-> "Plan.retrieve", id |-> a.donation_plan_id]>>]
          [] goc = "IntegrityError" ->
               [goc |-> goc, donation_amount |-> priced[1],
                plans |-> plans, success |-> FALSE,
                status |-> IF a.is_organization_plan
                           THEN <<"ORGANIZATION_SUBSCRIPTION_ALREADY_EXISTS ">>
                           ELSE <<>>,
                org_subs_already_exists |-> a.is_organization_plan,
                stripe_plan_id |-> EmptyId, calls |-> <<>>]
          [] OTHER ->
               [goc |-> goc, donation_amount |-> priced[1],
                plans |-> plans, success |-> FALSE, status |-> <<>>,
                org_subs_already_exists |-> FALSE,
                stripe_plan_id |-> EmptyId, calls |-> <<>>]

\* the answers stripe.Plan.create may give after the try block t: none when it
\* is not called
GwAnswers(t) ==
    IF NeedsStripePlan(t.stripe_plan_id, t.org_subs_already_exists)
    THEN {"ok", "no_id", "error"}
    ELSE {"not called"}

\* retrieve_or_create_recurring_donation_plan after its try block t: the plan
\* is created in the gateway when it was not retrieved, and the results are
\* put together.  gw is the gateway's answer.  raised: stripe.Plan.create's
\* StripeError escapes the method, which then returns no results (results holds
\* the values the method had reached)
PlanFinish(a, t, gw) ==
    LET creates == NeedsStripePlan(t.stripe_plan_id, t.org_subs_already_exists)
        made == StripePlanCreate(a.donation_plan_id, t.donation_amount, gw)
    IN  [plans |-> t.plans,
         stripePlans |-> IF creates /\ made = "ok"
                         THEN stripePlans \cup {[id |-> a.donation_plan_id,
                                                 amount |-> t.donation_amount]}
                         ELSE stripePlans,
         calls |-> IF creates
                   THEN Append(t.calls, [api |-> "Plan.create", id |-> a.donation_plan_id,
                                         amount |-> t.donation_amount])
                   ELSE t.calls,
         goc |-> t.goc,
         raised |-> creates /\ made = "error",
         results |->
            [success |-> IF creates /\ made # "error" THEN made = "ok" ELSE t.success,
             status |-> IF ~creates \/ made = "error" THEN t.status
                        ELSE IF made = "ok"
                             THEN Append(t.status, "SUBSCRIPTION_PLAN_CREATED_IN_STRIPE ")
                             ELSE Append(t.status, "SUBSCRIPTION_PLAN_NOT_CREATED_IN_STRIPE "),
             org_subs_already_exists |-> t.org_subs_already_exists,
             MultipleObjectsReturned |-> FALSE,
             recurring_donation_plan_id |-> a.donation_plan_id]]

RetrieveOrCreateRecurringDonationPlan(a) ==
    \E cp \in CouponPrices(a.plan_type_enum, a.coupon_code) :
      \E gw \in GwAnswers(PlanTry(a, cp)) :
        LET r == PlanFinish(a, PlanTry(a, cp), gw)
        IN  /\ plans' = r.plans
            /\ stripePlans' = r.stripePlans
            /\ lastCall' = [op |-> "retrieve_or_create_recurring_donation_plan",
                            args |-> a, goc |-> r.goc, calls |-> r.calls,
                            raised |-> r.raised, results |-> r.results]
            /\ UNCHANGED <<coupons, journal, folds, invoices, inflight>>

\* ---------------------------------------------- subscription creation

\* retrieve_stripe_card_error_message's card_error_message: the decline codes
\* it knows
CardErrorCodes ==
    {"approve_with_id", "card_not_supported", "card_velocity_exceeded",
     "currency_not_supported", "duplicate_transaction", "fraudulent",
     "incorrect_number", "incorrect_pin", "incorrect_zip", "insufficient_funds",
     "invalid_account", "invalid_amount", "invalid_cvc", "invalid_expiry_year",
     "invalid_number", "invalid_pin", "issuer_not_available",
     "new_account_information_available", "withdrawal_count_limit_exceeded",
     "pin_try_exceeded", "processing_error"}

\* the message used for every other code
UnknownCardErrorMessage ==
    "Your card has been declined for an unknown reason. Contact your bank for more information."

\* card_error_message[error]
CardErrorMessage(error) ==
    CASE error = "approve_with_id" ->
            "The transaction cannot be authorized. Please try again or contact your bank."
      [] error = "card_not_supported" ->
            "Your card does not support this type of purchase. Contact your bank for more information."
      [] error = "card_velocity_exceeded" ->
            "You have exceeded the balance or credit limit available on your card."
      [] error = "currency_not_supported" ->
            "Your card does not support the specified currency."
      [] error = "duplicate_transaction" ->
            "This transaction has been declined because a transaction with identical amount and credit card information was submitted very recently."
      [] error = "fraudulent" ->
            "This transaction has been flagged as potentially fraudulent. Contact your bank for more information."
      [] error = "incorrect_number" ->
            "Your card number is incorrect. Please enter the correct number and try again."
      [] error = "incorrect_pin" ->
            "Your pin is incorrect. Please enter the correct number and try again."
      [] error = "incorrect_zip" ->
            "Your ZIP/postal code is incorrect. Please enter the correct number and try again."
      [] error = "insufficient_funds" ->
            "Your card has insufficient funds to complete this transaction."
      [] error = "invalid_account" ->
            "Your card, or account the card is connected to, is invalid. Contact your bank for more information."
      [] error = "invalid_amount" ->
            "The payment amount exceeds the amount that is allowed. Contact your bank for more information."
      [] error = "invalid_cvc" ->
            "Your CVC number is incorrect. Please enter the correct number and try again."
      [] error = "invalid_expiry_year" ->
            "The expiration year is invalid. Please enter the correct number and try again."
      [] error = "invalid_number" ->
            "Your card number is incorrect. Please enter the correct number and try again."
      [] error = "invalid_pin" ->
            "Your pin is incorrect. Please enter the correct number and try again."
      [] error = "issuer_not_available" ->
            "The payment cannot be authorized. Please try again or contact your bank."
      [] error = "new_account_information_available" ->
            "Your card, or account the card is connected to, is invalid. Contact your bank for more information."
      [] error = "withdrawal_count_limit_exceeded" ->
            "You have exceeded the balance or credit limit on your card. Please try another payment method."
      [] error = "pin_try_exceeded" ->
            "The allowable number of PIN tries has been exceeded. Please try again later or use another payment method."
      [] error = "processing_error" ->
            "An error occurred while processing the card. Please try again."

\* retrieve_stripe_card_error_message's loop: the message of the first key equal
\* to error_type, the unknown-reason message when the loop finds none
StripeCardErrorMessage(error_type) ==
    IF \E error \in CardErrorCodes : error = error_type
    THEN CardErrorMessage(CHOOSE error \in CardErrorCodes : error = error_type)
    ELSE UnknownCardErrorMessage

RetrieveStripeCardErrorMessage(error_type) ==
    /\ lastCall' = [op |-> "retrieve_stripe_card_error_message",
                    error_type |-> error_type,
                    message |-> StripeCardErrorMessage(error_type)]
    /\ UNCHANGED <<coupons, plans, stripePlans, journal, folds, invoices, inflight>>

\* A plausible slip: the decline is answered with a message that lacks the
\* gateway's own
SubscriptionErrorStatusWithoutMessage(err) == <<"STRIPE_ERROR_IS_", "_END">>

\* status = "STRIPE_ERROR_IS_" + err['message'] + "_END"
SubscriptionErrorStatus(err) == <<"STRIPE_ERROR_IS_", err.message, "_END">>

\* A plausible slip: the subscription is created whenever the plan call
\* did not report an existing organization subscription
SubscribesUnlessExists(plan_results) == ~plan_results.org_subs_already_exists

\* if not donation_plan_id_query['org_subs_already_exists'] and
\*    donation_plan_id_query['success']
Subscribes(plan_results) ==
    ~plan_results.org_subs_already_exists /\ plan_results.success

\* create_recurring_donation's results after stripe.Subscription.create; sub is
\* the subscription the gateway made, or the StripeError it raised
SubscriptionResults(plan_results, donation_plan_id, sub) ==
    IF sub.ok
    THEN [success |-> TRUE,
          status |-> Append(plan_results.status, "USER_SUCCESSFULLY_SUBSCRIBED_TO_PLAN "),
          voter_subscription_saved |->
              Append(plan_results.status, "USER_SUCCESSFULLY_SUBSCRIBED_TO_PLAN "),
          subscription_plan_id |-> donation_plan_id,
          subscription_created_at |-> sub.created,
          subscription_id |-> sub.id,
          org_subs_already_exists |-> FALSE]
    ELSE [success |-> FALSE,
          status |-> SubscriptionErrorStatus(sub),
          voter_subscription_saved |-> FALSE,
          subscription_plan_id |-> EmptyId,
          subscription_created_at |-> "",
          subscription_id |-> "",
          org_subs_already_exists |-> FALSE]

\* what stripe.Subscription.create answers: a subscription, or a StripeError
\* with the gateway's decline code and message
SubscriptionOutcomes ==
    {[ok |-> TRUE, id |-> "sub_1", created |-> 1570000000, code |-> "", message |-> ""],
     [ok |-> FALSE, id |-> "", created |-> 0, code |-> "insufficient_funds",
      message |-> "Your card has insufficient funds."],
     [ok |-> FALSE, id |-> "", created |-> 0, code |-> "card_declined",
      message |-> "Your card was declined."]}

\* create_recurring_donation after the plan call r: the subscription is
\* created, or the plan call's results are returned as they are
RecurringDonationCall(stripe_customer_id, a, email, r, sub) ==
    IF ~r.raised /\ Subscribes(r.results)
    THEN [calls |-> Append(r.calls,
                           [api |-> "Subscription.create",
                            customer |-> stripe_customer_id,
                            plan |-> a.donation_plan_id,
                            metadata |-> [voter_we_vote_id |-> a.voter_we_vote_id,
                                          email |-> email]]),
          sub |-> <<sub>>,
          results |-> SubscriptionResults(r.results, a.donation_plan_id, sub)]
    ELSE [calls |-> r.calls, sub |-> <<>>, results |-> r.results]

\* the answers stripe.Subscription.create may give after the plan call r
SubAnswers(r) ==
    IF ~r.raised /\ Subscribes(r.results)
    THEN SubscriptionOutcomes
    ELSE {[ok |-> FALSE, id |-> "", created |-> 0, code |-> "", message |-> "not called"]}

\* create_recurring_donation; the plan id is derived from the voter and the
\* amount
CreateRecurringDonation(stripe_customer_id, a, email) ==
    /\ a.donation_plan_id =
         DonationPlanId(a.voter_we_vote_id, a.is_organization_plan, a.donation_amount)
    /\ \E cp \in CouponPrices(a.plan_type_enum, a.coupon_code) :
        \E gw \in GwAnswers(PlanTry(a, cp)) :
          \E sub \in SubAnswers(PlanFinish(a, PlanTry(a, cp), gw)) :
            LET r == PlanFinish(a, PlanTry(a, cp), gw)
                c == RecurringDonationCall(stripe_customer_id, a, email, r, sub)
            IN  /\ plans' = r.plans
                /\ stripePlans' = r.stripePlans
                /\ lastCall' = [op |-> "create_recurring_donation", args |-> a,
                                goc |-> r.goc, calls |-> c.calls,
                                raised |-> r.raised, plan_results |-> r.results,
                                sub |-> c.sub, results |-> c.results]
                /\ UNCHANGED <<coupons, journal, folds, invoices, inflight>>

\* ------------------------------------------------------ donation journal

\* width=255 of textwrap.shorten (the max_length of DonationJournal.status)
StatusWidth == 255

\* placeholder="..." of textwrap.shorten
Placeholder == "..."

\* A status text is the sequence of its words (what text.split() gives), and a
\* word is the sequence of the strings that were concatenated into it.
RECURSIVE WordLen(_)
WordLen(w) == IF w = <<>> THEN 0 ELSE Len(Head(w)) + WordLen(Tail(w))

\* len(' '.join(words))
RECURSIVE JoinedLen(_)
JoinedLen(ws) ==
    IF ws = <<>> THEN 0
    ELSE IF Len(ws) = 1 THEN WordLen(ws[1])
    ELSE WordLen(Head(ws)) + 1 + JoinedLen(Tail(ws))

\* row.status + clause, as words.  A stored status has no trailing whitespace,
\* so a clause that does not begin with a space continues the last word.
AppendClause(status, clause, leading_space) ==
    IF status = <<>> \/ leading_space
    THEN status \o clause
    ELSE [status EXCEPT ![Len(status)] = @ \o Head(clause)] \o Tail(clause)

\* A plausible slip: the text is cut to the words that fit, without the
\* placeholder
ShortenWithoutPlaceholder(ws) ==
    IF JoinedLen(ws) <= StatusWidth
    THEN ws
    ELSE SubSeq(ws, 1, SetMax({0} \cup {k \in 1..Len(ws) :
                                  JoinedLen(SubSeq(ws, 1, k)) <= StatusWidth}))

\* textwrap.shorten(text, width=255, placeholder="..."): the text with its
\* whitespace collapsed when it fits the width; otherwise the most leading
\* words that fit together with the placeholder, and the placeholder after them
Shorten(ws) ==
    IF JoinedLen(ws) <= StatusWidth
    THEN ws
    ELSE LET fits == {k \in 1..Len(ws) :
                        JoinedLen(SubSeq(ws, 1, k)) + Len(Placeholder) <= StatusWidth}
         IN  IF fits = {}
             THEN <<<<Placeholder>>>>
             ELSE [SubSeq(ws, 1, SetMax(fits)) EXCEPT ![SetMax(fits)] = Append(@, Placeholder)]

\* lower case, over the identifiers of the model (for __iexact)
Lower(s) ==
    CASE s = "CH_1" -> "ch_1"
      [] s = "WV02VOTER1" -> "wv02voter1"
      [] OTHER -> s

\* field__iexact=value
IExact(field, value) == Lower(field) = Lower(value)

\* str(datetime.utcnow()), as its two words.  One instant stands for every
\* time of a call: the clauses differ in their letters, not in their lengths.
UtcNow == <<"2020-01-02", "10:30:00.123456">>

\* " CHARGE_REFUND_REQUESTED" + "_" + str(refund['created']) + "_" +
\* refund['currency'] + "_" + str(refund['amount']) + "_REFUND_ID" + refund['id'] + " "
RefundRequestedClause(refund) ==
    <<<<"CHARGE_REFUND_REQUESTED", "_", ToString(refund.created), "_", refund.currency,
        "_", ToString(refund.amount), "_REFUND_ID", refund.id>>>>

\* "CHARGE_WAS_ALREADY_REFUNDED_" + str(datetime.utcnow()) + " "
AlreadyRefundedClause == <<<<"CHARGE_WAS_ALREADY_REFUNDED_", UtcNow[1]>>, <<UtcNow[2]>>>>

\* "CHARGE_REFUNDED_" + str(datetime.utcnow()) + " "
RefundCompletedClause == <<<<"CHARGE_REFUNDED_", UtcNow[1]>>, <<UtcNow[2]>>>>

\* DonationJournal.objects.create(...): the storage layer refuses a negative
\* amount (PositiveIntegerField)
JournalCreateFails(row) == row.amount < 0 \/ row.amount_refunded < 0

\* create_donation_journal_entry.  When the insert fails, success is set but
\* status is not, and building saved_results raises UnboundLocalError.
CreateDonationJournalEntry(row) ==
    /\ Len(journal) < MaxJournal
    /\ IF JournalCreateFails(row)
       THEN /\ journal' = journal
            /\ lastCall' = [op |-> "create_donation_journal_entry", row |-> row,
                            raised |-> "UnboundLocalError", history_entry_saved |-> 0]
       ELSE /\ journal' = Append(journal, row)
            /\ lastCall' = [op |-> "create_donation_journal_entry", row |-> row,
                            raised |-> "", history_entry_saved |-> Len(journal) + 1]
    /\ UNCHANGED <<coupons, plans, stripePlans, folds, invoices, inflight>>

\* the rows of DonationJournal.objects.get(charge_id__iexact=, voter_we_vote_id__iexact=)
JournalByChargeAndVoter(charge, voter_we_vote_id) ==
    {i \in DOMAIN journal :
        /\ IExact(journal[i].charge_id, charge)
        /\ IExact(journal[i].voter_we_vote_id, voter_we_vote_id)}

\* A plausible slip: the charge is matched whatever its case, as the other
\* two folds match it
JournalByChargeIExact(charge) == {i \in DOMAIN journal : IExact(journal[i].charge_id, charge)}

\* the rows of DonationJournal.objects.get(charge_id=)
JournalByCharge(charge) == {i \in DOMAIN journal : journal[i].charge_id = charge}

\* .get() over the matching rows m: the one row, or the exception it raises
JournalGet(m) ==
    IF Cardinality(m) = 1 THEN [raised |-> "", id |-> CHOOSE i \in m : TRUE]
    ELSE IF m = {} THEN [raised |-> "DoesNotExist", id |-> 0]
    ELSE [raised |-> "MultipleObjectsReturned", id |-> 0]

\* the record of a journal call: g is what .get() gave, returned the value
\* returned, "" when the call raised
JournalCall(op, charge, voter_we_vote_id, refund, g, raised, returned) ==
    [op |-> op, charge |-> charge, voter_we_vote_id |-> voter_we_vote_id,
     refund |-> refund, row_id |-> g.id,
     raised |-> raised, returned |-> returned]

\* the .get() of a call that did not look a row up
NoGet == [raised |-> "", id |-> 0]

\* if refund and refund['amount'] > 0 and refund['status'] == "succeeded"
\* (refund is <<>> for None, <<r>> for the refund r)
RefundAccepted(refund) ==
    refund # <<>> /\ refund[1].amount > 0 /\ refund[1].status = "succeeded"

\* update_journal_entry_for_refund; the DoesNotExist and the
\* MultipleObjectsReturned of .get() are not caught
UpdateJournalEntryForRefund(charge, voter_we_vote_id, refund) ==
    /\ folds < MaxFolds
    /\ IF RefundAccepted(refund)
       THEN LET g == JournalGet(JournalByChargeAndVoter(charge, voter_we_vote_id))
            IN  IF g.raised # ""
                THEN /\ journal' = journal
                     /\ lastCall' = JournalCall("update_journal_entry_for_refund", charge,
                                                voter_we_vote_id, refund, g, g.raised, "")
                ELSE /\ journal' =
                          [journal EXCEPT ![g.id] =
                              [@ EXCEPT !.status =
                                            Shorten(AppendClause(@, RefundRequestedClause(refund[1]), TRUE)),
                                        !.amount_refunded = refund[1].amount,
                                        !.stripe_status = "refund pending"]]
                     /\ lastCall' = JournalCall("update_journal_entry_for_refund", charge,
                                                voter_we_vote_id, refund, g, "", "True")
       ELSE /\ journal' = journal
            /\ lastCall' = JournalCall("update_journal_entry_for_refund", charge,
                                       voter_we_vote_id, refund, NoGet, "", "False")
    /\ folds' = IF journal' = journal THEN folds ELSE folds + 1
    /\ UNCHANGED <<coupons, plans, stripePlans, invoices, inflight>>

\* A plausible slip: the already-refunded clause is appended only once
AlreadyRefundedStatusOnce(status) ==
    IF \E k \in DOMAIN status : \E p \in DOMAIN status[k] :
            status[k][p] = "CHARGE_WAS_ALREADY_REFUNDED_"
    THEN status
    ELSE Shorten(AppendClause(status, AlreadyRefundedClause, FALSE))

\* row.status of update_journal_entry_for_already_refunded
AlreadyRefundedStatus(status) == Shorten(AppendClause(status, AlreadyRefundedClause, FALSE))

\* update_journal_entry_for_already_refunded; nothing .get() raises is caught
UpdateJournalEntryForAlreadyRefunded(charge, voter_we_vote_id) ==
    /\ folds < MaxFolds
    /\ LET g == JournalGet(JournalByChargeAndVoter(charge, voter_we_vote_id))
       IN  IF g.raised # ""
           THEN /\ journal' = journal
                /\ lastCall' = JournalCall("update_journal_entry_for_already_refunded",
                                           charge, voter_we_vote_id, <<>>, g, g.raised, "")
           ELSE /\ journal' =
                     [journal EXCEPT ![g.id] =
                         [@ EXCEPT !.status = AlreadyRefundedStatus(@),
                                   !.amount_refunded = journal[g.id].amount,
                                   !.stripe_status = "refunded"]]
                /\ lastCall' = JournalCall("update_journal_entry_for_already_refunded",
                                           charge, voter_we_vote_id, <<>>, g, "", "True")
    /\ folds' = IF journal' = journal THEN folds ELSE folds + 1
    /\ UNCHANGED <<coupons, plans, stripePlans, invoices, inflight>>

\* update_journal_entry_for_refund_completed; DoesNotExist is caught,
\* MultipleObjectsReturned is not
UpdateJournalEntryForRefundCompleted(charge) ==
    /\ folds < MaxFolds
    /\ LET g == JournalGet(JournalByCharge(charge))
       IN  IF g.raised = "MultipleObjectsReturned"
           THEN /\ journal' = journal
                /\ lastCall' = JournalCall("update_journal_entry_for_refund_completed",
                                           charge, "", <<>>, g, g.raised, "")
           ELSE IF g.raised = "DoesNotExist"
           THEN /\ journal' = journal
                /\ lastCall' = JournalCall("update_journal_entry_for_refund_completed",
                                           charge, "", <<>>, g, "", "False")
           ELSE /\ journal' =
                     [journal EXCEPT ![g.id] =
                         [@ EXCEPT !.status =
                                       Shorten(AppendClause(@, RefundCompletedClause, FALSE)),
                                   !.stripe_status = "refunded"]]
                /\ lastCall' = JournalCall("update_journal_entry_for_refund_completed",
                                           charge, "", <<>>, g, "", "True")
    /\ folds' = IF journal' = journal THEN folds ELSE folds + 1
    /\ UNCHANGED <<coupons, plans, stripePlans, invoices, inflight>>

\* ------------------------------------------- refund folds, step by step

\* Two webhook handlers may run at the same time.  Each fold is a .get() of the
\* row into the handler's memory and, later, a .save() of that copy, which
\* writes every column of the row; nothing locks the row in between.
\* The record of a step of a fold: step is "get" or "save".
FoldStep(op, step, charge, voter_we_vote_id, refund, row_id, raised, returned) ==
    [op |-> op, step |-> step, charge |-> charge, voter_we_vote_id |-> voter_we_vote_id,
     refund |-> refund, row_id |-> row_id, raised |-> raised, returned |-> returned]

\* update_journal_entry_for_refund up to its .get(): a refund that is not
\* accepted returns "False", and what .get() raises escapes
UpdateJournalEntryForRefundGet(charge, voter_we_vote_id, refund) ==
    /\ folds < MaxFolds
    /\ inflight["refund"] = <<>>
    /\ LET g == JournalGet(JournalByChargeAndVoter(charge, voter_we_vote_id))
       IN  IF ~RefundAccepted(refund)
           THEN /\ inflight' = inflight
                /\ lastCall' = FoldStep("update_journal_entry_for_refund", "get", charge,
                                        voter_we_vote_id, refund, 0, "", "False")
           ELSE IF g.raised # ""
           THEN /\ inflight' = inflight
                /\ lastCall' = FoldStep("update_journal_entry_for_refund", "get", charge,
                                        voter_we_vote_id, refund, 0, g.raised, "")
           ELSE /\ inflight' = [inflight EXCEPT !["refund"] =
                                   <<[id |-> g.id, row |-> journal[g.id], charge |-> charge,
                                      voter_we_vote_id |-> voter_we_vote_id, refund |-> refund]>>]
                /\ lastCall' = FoldStep("update_journal_entry_for_refund", "get", charge,
                                        voter_we_vote_id, refund, g.id, "", "")
    /\ UNCHANGED <<coupons, plans, stripePlans, journal, invoices, folds>>

\* update_journal_entry_for_refund from its .get() on: the copy of the row is
\* changed and saved
UpdateJournalEntryForRefundSave ==
    /\ inflight["refund"] # <<>>
    /\ LET h == inflight["refund"][1]
       IN  /\ journal' =
                [journal EXCEPT ![h.id] =
                    [h.row EXCEPT !.status =
                                      Shorten(AppendClause(@, RefundRequestedClause(h.refund[1]), TRUE)),
                                  !.amount_refunded = h.refund[1].amount,
                                  !.stripe_status = "refund pending"]]
           /\ lastCall' = FoldStep("update_journal_entry_for_refund", "save", h.charge,
                                   h.voter_we_vote_id, h.refund, h.id, "", "True")
    /\ inflight' = [inflight EXCEPT !["refund"] = <<>>]
    /\ folds' = folds + 1
    /\ UNCHANGED <<coupons, plans, stripePlans, invoices>>

\* update_journal_entry_for_refund_completed up to its .get(): DoesNotExist
\* is caught and answered with "False", MultipleObjectsReturned escapes
UpdateJournalEntryForRefundCompletedGet(charge) ==
    /\ folds < MaxFolds
    /\ inflight["refund_completed"] = <<>>
    /\ LET g == JournalGet(JournalByCharge(charge))
       IN  IF g.raised = "MultipleObjectsReturned"
           THEN /\ inflight' = inflight
                /\ lastCall' = FoldStep("update_journal_entry_for_refund_completed", "get",
                                        charge, "", <<>>, 0, g.raised, "")
           ELSE IF g.raised = "DoesNotExist"
           THEN /\ inflight' = inflight
                /\ lastCall' = FoldStep("update_journal_entry_for_refund_completed", "get",
                                        charge, "", <<>>, 0, "", "False")
           ELSE /\ inflight' = [inflight EXCEPT !["refund_completed"] =
                                   <<[id |-> g.id, row |-> journal[g.id], charge |-> charge]>>]
                /\ lastCall' = FoldStep("update_journal_entry_for_refund_completed", "get",
                                        charge, "", <<>>, g.id, "", "")
    /\ UNCHANGED <<coupons, plans, stripePlans, journal, invoices, folds>>

\* update_journal_entry_for_refund_completed from its .get() on
UpdateJournalEntryForRefundCompletedSave ==
    /\ inflight["refund_completed"] # <<>>
    /\ LET h == inflight["refund_completed"][1]
       IN  /\ journal' =
                [journal EXCEPT ![h.id] =
                    [h.row EXCEPT !.status =
                                      Shorten(AppendClause(@, RefundCompletedClause, FALSE)),
                                  !.stripe_status = "refunded"]]
           /\ lastCall' = FoldStep("update_journal_entry_for_refund_completed", "save",
                                   h.charge, "", <<>>, h.id, "", "True")
    /\ inflight' = [inflight EXCEPT !["refund_completed"] = <<>>]
    /\ folds' = folds + 1
    /\ UNCHANGED <<coupons, plans, stripePlans, invoices>>

\* -------------------------------------------------------- journal queries

\* the rows of DonationJournal.objects.get(voter_we_vote_id__iexact=)
JournalByVoter(voter_we_vote_id) ==
    {i \in DOMAIN journal : IExact(journal[i].voter_we_vote_id, voter_we_vote_id)}

\* A plausible slip: the status of a move that found nothing to move lacks its
\* indicator
NoDonationsToMoveStatusBlank(from_id, to_id) == <<" ", from_id, "-TO-", to_id, " ">>

\* " NO-DONATIONS-TO-MOVE-FROM-" + voter_we_vote_id + "-TO-" + to_voter_we_vote_id + " "
NoDonationsToMoveStatus(from_id, to_id) ==
    <<" NO-DONATIONS-TO-MOVE-FROM-", from_id, "-TO-", to_id, " ">>

\* move_donations_between_donors's results; g is what .get() gave.
\* MultipleObjectsReturned is caught by except Exception.
MoveResults(from_id, to_id, g) ==
    IF g.raised = ""
    THEN [success |-> TRUE,
          status |-> <<"move_donations_between_donors MOVED-DONATIONS-FROM-",
                       from_id, "-TO-", to_id, " ">>]
    ELSE IF g.raised = "DoesNotExist"
    THEN [success |-> FALSE, status |-> NoDonationsToMoveStatus(from_id, to_id)]
    ELSE [success |-> FALSE, status |-> <<" EXCEPTION-IN-move_donations_between_donors ">>]

\* move_donations_between_donors(from_voter, to_voter), by the we_vote_id of
\* the two voters
MoveDonationsBetweenDonors(from_id, to_id) ==
    /\ LET g == JournalGet(JournalByVoter(from_id))
       IN  /\ journal' = IF g.raised = ""
                         THEN [journal EXCEPT ![g.id].voter_we_vote_id = to_id]
                         ELSE journal
           /\ lastCall' = [op |-> "move_donations_between_donors", from_id |-> from_id,
                           to_id |-> to_id, handled |-> g.raised,
                           results |-> MoveResults(from_id, to_id, g)]
    /\ UNCHANGED <<coupons, plans, stripePlans, invoices, folds, inflight>>

\* the sequences that hold every element of the set m once
Orders(m) ==
    {f \in [1..Cardinality(m) -> m] : \A a, b \in 1..Cardinality(m) : a # b => f[a] # f[b]}

\* A plausible slip: the rows are listed newest id first
JournalListOrdersById(m) ==
    {f \in Orders(m) : \A a, b \in DOMAIN f : a < b => f[a] > f[b]}

\* .order_by('-created') over the rows m: the orders the database may give, any
\* one in which no row comes before a row created later (the order among equal
\* created is the database's choice)
JournalListOrders(m) ==
    {f \in Orders(m) :
        \A a, b \in DOMAIN f : a < b => journal[f[a]].created >= journal[f[b]].created}

\* retrieve_donation_journal_list; voters_donation_list is given by the ids of
\* its rows
RetrieveDonationJournalList(we_vote_id) ==
    /\ \E list \in JournalListOrders(JournalByVoter(we_vote_id)) :
         lastCall' = [op |-> "retrieve_donation_journal_list", we_vote_id |-> we_vote_id,
                      results |->
                        [success |-> TRUE,
                         status |-> IF Len(list) > 0
                                    THEN " CACHED_WE_VOTE_HISTORY_LIST_RETRIEVED "
                                    ELSE " NO_HISTORY_EXISTS_FOR_THIS_VOTER ",
                         voters_donation_list |-> list]]
    /\ UNCHANGED <<coupons, plans, stripePlans, journal, invoices, folds, inflight>>

\* the rows of queryset.filter(subscription_plan_id=plan_id)
JournalByPlan(plan_id) == {i \in DOMAIN journal : journal[i].subscription_plan_id = plan_id}

\* check_for_subscription_in_db_without_card_info's row_id: rows[0] of
\* .order_by('-id') is the row of the greatest id, and only that row is tested
SubscriptionWithoutCardInfo(plan_id) ==
    LET rows == JournalByPlan(plan_id)
    IN  IF rows # {} /\ journal[SetMax(rows)].last4 = 0 THEN SetMax(rows) ELSE -1

CheckForSubscriptionInDbWithoutCardInfo(customer, plan_id) ==
    /\ lastCall' = [op |-> "check_for_subscription_in_db_without_card_info",
                    customer |-> customer, plan_id |-> plan_id,
                    row_id |-> SubscriptionWithoutCardInfo(plan_id)]
    /\ UNCHANGED <<coupons, plans, stripePlans, journal, invoices, folds, inflight>>

\* the rows of queryset.filter(stripe_customer_id=stripe_customer_id)
JournalByCustomer(stripe_customer_id) ==
    {i \in DOMAIN journal : journal[i].stripe_customer_id = stripe_customer_id}

\* the test of the first loop of find_we_vote_voter_id_for_stripe_customer
IsLoggedInSetupRow(row) ==
    /\ row.not_loggedin_voter_we_vote_id = None
    /\ row.record_enum = "SUBSCRIPTION_SETUP_AND_INITIAL"
    /\ row.voter_we_vote_id # ""

\* A plausible slip: one loop, which returns at the newest row that has either
\* a logged in setup or an id of a voter who was not logged in
VoterIdForStripeCustomerOneLoop(stripe_customer_id) ==
    LET rows == JournalByCustomer(stripe_customer_id)
        hits == {i \in rows : \/ IsLoggedInSetupRow(journal[i])
                              \/ journal[i].not_loggedin_voter_we_vote_id # None}
    IN  IF hits = {} THEN ""
        ELSE IF IsLoggedInSetupRow(journal[SetMax(hits)])
        THEN journal[SetMax(hits)].voter_we_vote_id
        ELSE journal[SetMax(hits)].not_loggedin_voter_we_vote_id

\* what find_we_vote_voter_id_for_stripe_customer returns: its two loops run
\* over the rows in the order of .order_by('-id')
VoterIdForStripeCustomer(stripe_customer_id) ==
    LET rows == JournalByCustomer(stripe_customer_id)
        setups == {i \in rows : IsLoggedInSetupRow(journal[i])}
        others == {i \in rows : journal[i].not_loggedin_voter_we_vote_id # None}
    IN  IF setups # {} THEN journal[SetMax(setups)].voter_we_vote_id
        ELSE IF others # {} THEN journal[SetMax(others)].not_loggedin_voter_we_vote_id
        ELSE ""

FindWeVoteVoterIdForStripeCustomer(stripe_customer_id) ==
    /\ lastCall' = [op |-> "find_we_vote_voter_id_for_stripe_customer",
                    stripe_customer_id |-> stripe_customer_id,
                    returned |-> VoterIdForStripeCustomer(stripe_customer_id)]
    /\ UNCHANGED <<coupons, plans, stripePlans, journal, invoices, folds, inflight>>

\* ------------------------------------------------------ subscription end

\* datetime.fromtimestamp(t, timezone.utc): the aware datetime of the epoch
\* second t (an optional datetime, as a column holds it)
FromTimestamp(t) == <<[timestamp |-> t, tzinfo |-> "UTC"]>>

\* the rows of DonationJournal.objects.get(subscription_id=, stripe_customer_id=)
JournalBySubscriptionAndCustomer(subscription_id, customer_id) ==
    {i \in DOMAIN journal :
        /\ journal[i].subscription_id = subscription_id
        /\ journal[i].stripe_customer_id = customer_id}

\* mark_subscription_canceled_or_ended: DoesNotExist and every other exception
\* (the MultipleObjectsReturned of .get() among them) are logged and answered
\* with False
MarkSubscriptionCanceledOrEnded(subscription_id, customer_id, subscription_ended_at, subscription_canceled_at) ==
    /\ LET g == JournalGet(JournalBySubscriptionAndCustomer(subscription_id, customer_id))
       IN  /\ journal' =
                IF g.raised = ""
                THEN [journal EXCEPT ![g.id] =
                        [@ EXCEPT !.subscription_ended_at = FromTimestamp(subscription_ended_at),
                                  !.subscription_canceled_at = FromTimestamp(subscription_canceled_at)]]
                ELSE journal
           /\ lastCall' = [op |-> "mark_subscription_canceled_or_ended",
                           subscription_id |-> subscription_id, customer_id |-> customer_id,
                           subscription_ended_at |-> subscription_ended_at,
                           subscription_canceled_at |-> subscription_canceled_at,
                           handled |-> g.raised, row_id |-> g.id,
                           returned |-> (g.raised = "")]
    /\ UNCHANGED <<coupons, plans, stripePlans, invoices, folds, inflight>>

\* --------------------------------------------------------- invoice cache

\* how_many_days = 10: the age, in days, from which a cached invoice is deleted
HowManyDays == 10

\* DonationInvoice.objects.create(...): the storage layer refuses a row without
\* a customer (stripe_customer_id is null=False)
InvoiceCreateFails(row) == row.stripe_customer_id = None

\* update_donation_invoice.  When the insert fails, success is set but status
\* and new_invoice_entry are not, and building saved_results raises
\* UnboundLocalError.
UpdateDonationInvoice(subscription_id, donation_plan_id, invoice_id, invoice_date, customer_id) ==
    LET row == [subscription_id |-> subscription_id, donation_plan_id |-> donation_plan_id,
                invoice_id |-> invoice_id, invoice_date |-> invoice_date,
                stripe_customer_id |-> customer_id]
    IN  /\ Len(invoices) < MaxInvoices
        /\ IF InvoiceCreateFails(row)
           THEN /\ invoices' = invoices
                /\ lastCall' = [op |-> "update_donation_invoice", row |-> row,
                                raised |-> "UnboundLocalError", history_entry_saved |-> 0]
           ELSE /\ invoices' = Append(invoices, row)
                /\ lastCall' = [op |-> "update_donation_invoice", row |-> row,
                                raised |-> "", history_entry_saved |-> Len(invoices) + 1]
        /\ UNCHANGED <<coupons, plans, stripePlans, journal, folds, inflight>>

\* the rows of DonationInvoice.objects.get(invoice_id=)
InvoicesById(invoice_id) == {i \in DOMAIN invoices : invoices[i].invoice_id = invoice_id}

\* A plausible slip: the journal row is looked up by the subscription alone
SubscriptionRowsOfAnyKind(subscription_id) ==
    {i \in DOMAIN journal : journal[i].subscription_id = subscription_id}

\* the rows of DonationJournal.objects.get(subscription_id=,
\* record_enum="SUBSCRIPTION_SETUP_AND_INITIAL")
SubscriptionSetupRows(subscription_id) ==
    {i \in DOMAIN journal :
        /\ journal[i].subscription_id = subscription_id
        /\ journal[i].record_enum = "SUBSCRIPTION_SETUP_AND_INITIAL"}

\* A plausible slip: only the invoices older than how_many_days are deleted
InvoicesAfterPurgeOlder(now) ==
    SelectSeq(invoices, LAMBDA r : ~(r.invoice_date < now - HowManyDays))

\* the invoices left by
\* DonationInvoice.objects.filter(invoice_date__lte=now - timedelta(days=10)).delete()
\* (datetimes are counted in days)
InvoicesAfterPurge(now) ==
    SelectSeq(invoices, LAMBDA r : ~(r.invoice_date <= now - HowManyDays))

\* the record of a call of update_subscription_with_latest_charge_date:
\* lookups is how many times the invoice was looked up, slept whether the call
\* waited, raised the exception that escaped, handled the one that was logged
\* and swallowed, row_id the journal row that was written (0 for none), deleted
\* the queryset.count() the call logs before it deletes
ChargeDateCall(invoice_id, invoice_date, now, raised, handled, row_id, deleted) ==
    [op |-> "update_subscription_with_latest_charge_date", invoice_id |-> invoice_id,
     invoice_date |-> invoice_date, now |-> now, lookups |-> 1, slept |-> FALSE,
     raised |-> raised, handled |-> handled, row_id |-> row_id, deleted |-> deleted]

\* update_subscription_with_latest_charge_date.  The first
\* DonationInvoice.objects.get stands before the try: what it raises escapes
\* the method, and the handler that sleeps and looks up again guards only the
\* reading of row_invoice.subscription_id, which raises nothing.
UpdateSubscriptionWithLatestChargeDate(invoice_id, invoice_date, now) ==
    /\ LET g == JournalGet(InvoicesById(invoice_id))
       IN  IF g.raised # ""
           THEN /\ lastCall' = ChargeDateCall(invoice_id, invoice_date, now, g.raised, "", 0, 0)
                /\ UNCHANGED <<journal, invoices, inflight>>
           ELSE LET j == JournalGet(SubscriptionSetupRows(invoices[g.id].subscription_id))
                IN  IF j.raised # ""
                    THEN /\ lastCall' = ChargeDateCall(invoice_id, invoice_date, now,
                                                       "", j.raised, 0, 0)
                         /\ UNCHANGED <<journal, invoices, inflight>>
                    ELSE /\ journal' = [journal EXCEPT ![j.id].last_charged = FromTimestamp(invoice_date)]
                         /\ invoices' = InvoicesAfterPurge(now)
                         /\ lastCall' = ChargeDateCall(invoice_id, invoice_date, now, "", "", j.id,
                                                       Len(invoices) - Len(InvoicesAfterPurge(now)))
    /\ UNCHANGED <<coupons, plans, stripePlans, folds, inflight>>

\* ------------------------------------------------- the coupon specification

\* the datetimes the calls are made at, and a coupon may expire at
Times ==
    {DateTime(2019, 12, 31, 23), DateTime(2020, 1, 1, 0),
     DateTime(2020, 1, 1, 23), DateTime(2020, 1, 2, 0)}

\* the versions of a coupon: <<coupon_expires_date, monthly price, annual price>>
CouponVersions ==
    {<<<<DateTime(2020, 1, 1, 12)>>, 1250, 0>>, <<NoDate, 1000, 12000>>}

CouponCodes == {"25OFF"}

CouponPlanTypes == {PROFESSIONAL_MONTHLY, PROFESSIONAL_YEARLY}

\* the rows the admin interface inserts
CouponRows ==
    {[coupon_code |-> c, plan_type_enum |-> t, plan_created_at |-> s,
      coupon_expires_date |-> v[1], monthly_price_stripe |-> v[2],
      annual_price_stripe |-> v[3]] :
        c \in CouponCodes, t \in CouponPlanTypes, s \in 1..MaxStamp,
        v \in CouponVersions}

Init ==
    /\ coupons = <<>>
    /\ plans = <<>>
    /\ stripePlans = {}
    /\ journal = <<>>
    /\ invoices = <<>>
    /\ folds = 0
    /\ inflight = NoneInFlight
    /\ lastCall = NoCall

NextCoupon ==
    \/ \E row \in CouponRows : InsertCoupon(row)
    \/ \E t \in CouponPlanTypes, c \in CouponCodes, now \in Times : ValidateCoupon(t, c, now)
    \/ \E t \in CouponPlanTypes, c \in CouponCodes : GetCouponPrice(t, c)

SpecCoupon == Init /\ [][NextCoupon]_vars

\* --------------------------------------------------- the plan specification

\* the versions of the coupon 25OFF that the plan specification inserts: the
\* newer one is the cheaper one
PlanCouponRows ==
    {[coupon_code |-> "25OFF", plan_type_enum |-> PROFESSIONAL_MONTHLY,
      plan_created_at |-> 1, coupon_expires_date |-> NoDate,
      monthly_price_stripe |-> 1250, annual_price_stripe |-> 0],
     [coupon_code |-> "25OFF", plan_type_enum |-> PROFESSIONAL_MONTHLY,
      plan_created_at |-> 2, coupon_expires_date |-> NoDate,
      monthly_price_stripe |-> 1000, annual_price_stripe |-> 0]}

\* the arguments of one call of retrieve_or_create_recurring_donation_plan, as
\* create_recurring_donation passes them
PlanArg(v, amt, o, org) ==
    [voter_we_vote_id |-> v,
     donation_plan_id |-> DonationPlanId(v, o, amt),
     donation_amount |-> amt, is_organization_plan |-> o,
     coupon_code |-> "25OFF", plan_type_enum |-> PROFESSIONAL_MONTHLY,
     organization_we_vote_id |-> org]

\* a donor's monthly donation of either amount, and the subscription of one
\* organization asked for by either of two voters
PlanArgs ==
    {PlanArg("wv02voter1", 500, FALSE, None),
     PlanArg("wv02voter1", 1250, FALSE, None),
     PlanArg("wv02voter1", 1250, TRUE, "wv02org1"),
     PlanArg("wv02voter2", 1250, TRUE, "wv02org1")}

\* the decline codes asked of retrieve_stripe_card_error_message
AskedCodes == {"insufficient_funds", "processing_error", "card_declined", ""}

InsertPlanCoupon(row) == Len(coupons) < MaxPlanCoupons /\ InsertCoupon(row)

NextPlan ==
    \/ \E row \in PlanCouponRows : InsertPlanCoupon(row)
    \/ \E a \in PlanArgs : RetrieveOrCreateRecurringDonationPlan(a)

SpecPlan == Init /\ [][NextPlan]_vars

NextSubscribe ==
    \/ \E row \in PlanCouponRows : InsertPlanCoupon(row)
    \/ \E a \in PlanArgs : CreateRecurringDonation("cus_1", a, "voter@example.org")
    \/ \E code \in AskedCodes : RetrieveStripeCardErrorMessage(code)

SpecSubscribe == Init /\ [][NextSubscribe]_vars

\* ------------------------------------------------- the refund specification

\* the status a journal row is created with: the words of
\* "STRIPE_CHARGE_SUCCEEDED PAYMENT_FROM_UI_SAVED"
InitialStatus == <<<<"STRIPE_CHARGE_SUCCEEDED">>, <<"PAYMENT_FROM_UI_SAVED">>>>

\* the charges the journal rows are created for
JournalRows ==
    {[record_enum |-> "PAYMENT_FROM_UI", voter_we_vote_id |-> "wv02voter1",
      charge_id |-> c, amount |-> amt, amount_refunded |-> 0,
      stripe_status |-> "succeeded", status |-> InitialStatus] :
        c \in {"ch_1", "ch_2"}, amt \in {500, -1}}

\* the charge ids the gateway's events name: ch_1 in either case (no row has
\* the charge_id CH_1, and no row is of the voter wv02voter2)
EventCharges == {"ch_1", "CH_1"}

EventVoters == {"wv02voter1", "wv02voter2"}

\* a refund of the gateway
Refund(amount, status) ==
    <<[id |-> "re_1FGxyz2eZvKYlo2C5bNUkQpX", amount |-> amount, status |-> status,
       currency |-> "usd", created |-> 1570000000]>>

\* the refunds of the gateway's events; <<>> is no refund (None)
Refunds == {<<>>, Refund(500, "succeeded"), Refund(0, "succeeded"), Refund(500, "failed")}

NextRefund ==
    \/ \E row \in JournalRows : CreateDonationJournalEntry(row)
    \/ \E c \in EventCharges, v \in EventVoters, r \in Refunds :
         UpdateJournalEntryForRefund(c, v, r)
    \/ \E c \in EventCharges, v \in EventVoters : UpdateJournalEntryForAlreadyRefunded(c, v)
    \/ \E c \in EventCharges : UpdateJournalEntryForRefundCompleted(c)

SpecRefund == Init /\ [][NextRefund]_vars

\* ------------------------------------------------ the invoice specification

\* a journal row with every column the model reads
JournalEntry(record_enum, voter_we_vote_id, not_loggedin, customer, subscription_id, plan_id, last4, created) ==
    [record_enum |-> record_enum, voter_we_vote_id |-> voter_we_vote_id,
     not_loggedin_voter_we_vote_id |-> not_loggedin, stripe_customer_id |-> customer,
     charge_id |-> "", subscription_id |-> subscription_id,
     subscription_plan_id |-> plan_id, amount |-> 500, amount_refunded |-> 0,
     stripe_status |-> "succeeded", status |-> InitialStatus, last4 |-> last4,
     created |-> created, last_charged |-> NoDate,
     subscription_ended_at |-> NoDate, subscription_canceled_at |-> NoDate]

\* the journal rows of the subscription sub_1: the row of its setup, and the
\* row of a later automatic payment
InvoiceJournalRows ==
    {JournalEntry(e, "wv02voter1", None, "cus_1", "sub_1", "wv02voter1-monthly-500", 4242, 1) :
        e \in {"SUBSCRIPTION_SETUP_AND_INITIAL", "PAYMENT_AUTO_SUBSCRIPTION"}}

InvoiceIds == {"in_1", "in_2"}

\* the days of the invoices; the calls are made on day 20, when the invoices
\* are 15, 10 and 5 days old
InvoiceDays == {5, 10, 15}

Nows == {20}

NextInvoice ==
    \/ \E row \in InvoiceJournalRows : CreateDonationJournalEntry(row)
    \/ \E i \in InvoiceIds, d \in InvoiceDays, c \in {"cus_1", None} :
         UpdateDonationInvoice("sub_1", "wv02voter1-monthly-500", i, d, c)
    \/ \E i \in InvoiceIds, now \in Nows :
         UpdateSubscriptionWithLatestChargeDate(i, now, now)

SpecInvoice == Init /\ [][NextInvoice]_vars

\* ------------------------------------------------ the journal specification

\* the stripe customer and the subscription plan of a voter; the voter without
\* a we_vote_id pays as the customer of voter 1
CustomerOf(v) == IF v = "wv02voter2" THEN "cus_2" ELSE "cus_1"

PlanOf(v) == IF v = "wv02voter2" THEN "wv02voter2-monthly-500" ELSE "wv02voter1-monthly-500"

\* the kinds of journal row: <<record_enum, not_loggedin_voter_we_vote_id, last4>>.
\* A subscription is set up with last4 = 0 and gets its card later.
LedgerKinds ==
    {<<"SUBSCRIPTION_SETUP_AND_INITIAL", None, 0>>,
     <<"SUBSCRIPTION_SETUP_AND_INITIAL", None, 4242>>,
     <<"PAYMENT_FROM_UI", "wv02voter9", 4242>>,
     <<"PAYMENT_FROM_UI", None, 4242>>}

\* the stripe timestamps of the journal rows
LedgerCreated == {1, 2}

LedgerVoters == {"wv02voter1", "wv02voter2"}

\* the rows create_donation_journal_entry is called with
LedgerRows ==
    {JournalEntry(k[1], v, k[2], CustomerOf(v), "sub_1", PlanOf(v), k[3], c) :
        k \in LedgerKinds, v \in LedgerVoters, c \in LedgerCreated}
    \cup {JournalEntry("SUBSCRIPTION_SETUP_AND_INITIAL", "", None, "cus_1", "sub_1",
                       PlanOf(""), 0, 1)}

\* the moves asked for: <<from, to>>
LedgerMoves == {<<"wv02voter1", "wv02voter2">>, <<"wv02voter2", "wv02voter1">>}

NextJournal ==
    \/ \E row \in LedgerRows : CreateDonationJournalEntry(row)
    \/ \E mv \in LedgerMoves : MoveDonationsBetweenDonors(mv[1], mv[2])
    \/ \E v \in {"wv02voter1", "WV02VOTER1"} : RetrieveDonationJournalList(v)
    \/ CheckForSubscriptionInDbWithoutCardInfo("cus_1", PlanOf("wv02voter1"))
    \/ FindWeVoteVoterIdForStripeCustomer("cus_1")

SpecJournal == Init /\ [][NextJournal]_vars

\* ------------------------------------------- the cancellation specification

\* the journal rows of two subscriptions of the customer cus_1: the row of the
\* setup of each, and the row of a later automatic payment
CancelJournalRows ==
    {JournalEntry(e, "wv02voter1", None, "cus_1", s, "wv02voter1-monthly-500", 4242, 1) :
        e \in {"SUBSCRIPTION_SETUP_AND_INITIAL", "PAYMENT_AUTO_SUBSCRIPTION"},
        s \in {"sub_1", "sub_2"}}

\* the subscriptions and the customers the gateway's events name
CancelSubscriptions == {"sub_1", "sub_2"}

CancelCustomers == {"cus_1", "cus_2"}

\* the epoch seconds of ended_at and of canceled_at
CancelStamps == {1570000000, 1570086400}

NextCancel ==
    \/ \E row \in CancelJournalRows : CreateDonationJournalEntry(row)
    \/ \E s \in CancelSubscriptions, c \in CancelCustomers, e \in CancelStamps, k \in CancelStamps :
         MarkSubscriptionCanceledOrEnded(s, c, e, k)

SpecCancel == Init /\ [][NextCancel]_vars

\* ---------------------------------------------- the not-found specification

\* the queries that may find nothing, over a catalog and a journal that start
\* empty: the voters, the coupon and the plan asked for may or may not be there
\* the journal rows of voter 1: the setup of a subscription before and after
\* its card is known
NotFoundRows ==
    {JournalEntry("SUBSCRIPTION_SETUP_AND_INITIAL", "wv02voter1", None, "cus_1", "sub_1",
                  PlanOf("wv02voter1"), l, 1) : l \in {0, 4242}}

NextNotFound ==
    \/ \E row \in PlanCouponRows : InsertPlanCoupon(row)
    \/ \E row \in NotFoundRows : CreateDonationJournalEntry(row)
    \/ \E v \in LedgerVoters : RetrieveDonationJournalList(v)
    \/ \E t \in CouponPlanTypes : ValidateCoupon(t, "25OFF", DateTime(2020, 1, 1, 0))
    \/ \E v \in LedgerVoters : CheckForSubscriptionInDbWithoutCardInfo(CustomerOf(v), PlanOf(v))

SpecNotFound == Init /\ [][NextNotFound]_vars

\* --------------------------------------------------- the seed specification

\* the rows the admin interface inserts beside the seeds, without their
\* plan_created_at: a new version of the enterprise default, and a version of
\* 25OFF
SeedAdminRows ==
    {[coupon_code |-> "DEFAULT-ENTERPRISE_MONTHLY", plan_type_enum |-> ENTERPRISE_MONTHLY,
      coupon_expires_date |-> NoDate, monthly_price_stripe |-> 2000, annual_price_stripe |-> 0],
     [coupon_code |-> "25OFF", plan_type_enum |-> PROFESSIONAL_MONTHLY,
      coupon_expires_date |-> NoDate, monthly_price_stripe |-> 1000, annual_price_stripe |-> 0]}

\* the admin interface inserts a row into a catalog that may hold the seeds;
\* plan_created_at is left to its default
InsertSeedAdminCoupon(row) ==
    /\ Len(coupons) < MaxSeedCoupons
    /\ coupons' = Append(coupons, SeedRow(row.coupon_code, row.plan_type_enum, row.monthly_price_stripe, InsertTime(coupons)))
    /\ lastCall' = [op |-> "insert_coupon"]
    /\ UNCHANGED <<plans, stripePlans, journal, folds, invoices, inflight>>

NextSeed ==
    \/ \E row \in SeedAdminRows : InsertSeedAdminCoupon(row)
    \/ CreateInitialCoupons
    \/ RetrieveSubscriptionPlanList

SpecSeed == Init /\ [][NextSeed]_vars

\* --------------------------------------------------- the insert specification

\* the two plain inserts, with rows the storage layer takes and rows it refuses
NextInsert ==
    \/ \E row \in JournalRows : CreateDonationJournalEntry(row)
    \/ \E i \in InvoiceIds, d \in InvoiceDays, c \in {"cus_1", None} :
         UpdateDonationInvoice("sub_1", "wv02voter1-monthly-500", i, d, c)

SpecInsert == Init /\ [][NextInsert]_vars

\* --------------------------------------------- the concurrent specification

\* the journal rows of the charge ch_1 and of the charge ch_2
ConcurrentRows == {row \in JournalRows : row.amount > 0}

\* the two handlers of the refund webhooks, each running from its .get() to
\* its .save() while the other may run
NextConcurrent ==
    \/ \E row \in ConcurrentRows : CreateDonationJournalEntry(row)
    \/ \E c \in {"ch_1", "ch_9"}, r \in {Refund(500, "succeeded"), Refund(500, "failed")} :
         UpdateJournalEntryForRefundGet(c, "wv02voter1", r)
    \/ UpdateJournalEntryForRefundSave
    \/ \E c \in {"ch_1", "ch_9"} : UpdateJournalEntryForRefundCompletedGet(c)
    \/ UpdateJournalEntryForRefundCompletedSave

SpecConcurrent == Init /\ [][NextConcurrent]_vars

\* ------------------------------------------------------------ the claims

\* the price validate_coupon and get_coupon_price read from a coupon row
PriceOf(coupon, plan_type_enum) ==
    IF HasMonthly(plan_type_enum)
    THEN coupon.monthly_price_stripe
    ELSE coupon.annual_price_stripe

\* the rows of a pair with the greatest plan_created_at
NewestCoupons(plan_type_enum, coupon_code) ==
    LET m == CouponFilter(plan_type_enum, coupon_code)
    IN  {i \in m :
            coupons[i].plan_created_at = SetMax({coupons[j].plan_created_at : j \in m})}

\* C1: when a (plan_type, coupon_code) pair has two or more rows, get_coupon_price
\* returns the price and the id of a row with the greatest plan_created_at, and
\* validate_coupon the prices of such a row, whatever the insertion order.
C1_LatestCouponVersion ==
    /\ (/\ lastCall.op = "get_coupon_price"
        /\ Cardinality(CouponFilter(lastCall.plan_type_enum, lastCall.coupon_code)) >= 2)
       => /\ lastCall.org_subs_id
                \in NewestCoupons(lastCall.plan_type_enum, lastCall.coupon_code)
          /\ lastCall.price =
                PriceOf(coupons[lastCall.org_subs_id], lastCall.plan_type_enum)
    /\ (/\ lastCall.op = "validate_coupon"
        /\ Cardinality(CouponFilter(lastCall.plan_type_enum, lastCall.coupon_code)) >= 2)
       => \E i \in NewestCoupons(lastCall.plan_type_enum, lastCall.coupon_code) :
            /\ lastCall.results.coupon_match_found
            /\ lastCall.results.monthly_price_stripe + lastCall.results.annual_price_stripe
                  = PriceOf(coupons[i], lastCall.plan_type_enum)
            /\ lastCall.results.monthly_price_stripe =
                  IF HasMonthly(lastCall.plan_type_enum)
                  THEN coupons[i].monthly_price_stripe ELSE 0

\* C1's case: the newest version of a pair was inserted before an older one of
\* another price, and get_coupon_price returned the newest
C1_Witness ==
    /\ lastCall.op = "get_coupon_price"
    /\ \E i, j \in CouponFilter(lastCall.plan_type_enum, lastCall.coupon_code) :
         /\ i < j
         /\ coupons[i].plan_created_at > coupons[j].plan_created_at
         /\ PriceOf(coupons[i], lastCall.plan_type_enum)
               # PriceOf(coupons[j], lastCall.plan_type_enum)
         /\ lastCall.org_subs_id = i

\* C2: validate_coupon reports coupon_still_valid exactly when the matched
\* coupon has no expires_date or today's date is on or before the day of
\* expires_date.
C2_ValidThroughExpiryDay ==
    (lastCall.op = "validate_coupon" /\ lastCall.results.coupon_match_found)
    => (lastCall.results.coupon_still_valid <=>
          LET expires == coupons[lastCall.coupon_id].coupon_expires_date
          IN  \/ expires = NoDate
              \/ ConvertDateToDateAsInteger(DateOf(lastCall.now))
                    <= ConvertDateToDateAsInteger(expires[1]))

\* C3: when retrieve_or_create_recurring_donation_plan has created an
\* organization plan and is called again with the same arguments, the second
\* call (if the gateway lets it return) returns success = true and
\* org_subs_already_exists = true and adds no DonationPlanDefinition row.
C3_SecondCallAlreadyExists ==
    [][(/\ lastCall.op = "retrieve_or_create_recurring_donation_plan"
        /\ ~lastCall.raised
        /\ lastCall.results.success
        /\ lastCall'.op = "retrieve_or_create_recurring_donation_plan"
        /\ lastCall'.args = lastCall.args
        /\ lastCall'.args.is_organization_plan
        /\ ~lastCall'.raised)
       => /\ lastCall'.results.success
          /\ lastCall'.results.org_subs_already_exists
          /\ plans' = plans]_vars

\* the stripe.Subscription.create calls of the last call
SubscriptionCreates == {k \in DOMAIN lastCall.calls : lastCall.calls[k].api = "Subscription.create"}

\* C4: create_recurring_donation makes no stripe.Subscription.create call when
\* the plan call reports org_subs_already_exists, and then returns the plan
\* call's results as they are; it calls stripe.Subscription.create only after a
\* plan call that returned success = true and org_subs_already_exists = false.
C4_NoSubscriptionForExistingOrg ==
    lastCall.op = "create_recurring_donation"
    => /\ (~lastCall.raised /\ lastCall.plan_results.org_subs_already_exists)
          => /\ SubscriptionCreates = {}
             /\ lastCall.results = lastCall.plan_results
       /\ SubscriptionCreates # {}
          => /\ ~lastCall.raised
             /\ lastCall.plan_results.success
             /\ ~lastCall.plan_results.org_subs_already_exists
             /\ SubscriptionCreates = {Len(lastCall.calls)}

\* C4's case: the plan call of create_recurring_donation reported an existing
\* organization subscription
C4_Witness ==
    /\ lastCall.op = "create_recurring_donation"
    /\ ~lastCall.raised
    /\ lastCall.plan_results.org_subs_already_exists
    /\ lastCall.results.org_subs_already_exists

\* C5: retrieve_or_create_recurring_donation_plan returns success = true only
\* when the plan is a local row and a gateway plan, or when the call was an
\* organization duplicate.
C5_SuccessOnlyIfConsistent ==
    (/\ lastCall.op = "retrieve_or_create_recurring_donation_plan"
     /\ ~lastCall.raised
     /\ lastCall.results.success)
    => \/ /\ \E i \in DOMAIN plans :
                plans[i].donation_plan_id = lastCall.args.donation_plan_id
          /\ StripeHasPlan(lastCall.args.donation_plan_id)
       \/ /\ lastCall.args.is_organization_plan
          /\ lastCall.results.org_subs_already_exists

\* the stripe.Plan.create calls of the last call
PlanCreates == {k \in DOMAIN lastCall.calls : lastCall.calls[k].api = "Plan.create"}

\* the amounts C6 allows the last plan call: the price of a newest version of
\* the coupon for an organization plan, the caller's amount otherwise
C6Amounts ==
    IF lastCall.args.is_organization_plan
    THEN {PriceOf(coupons[i], lastCall.args.plan_type_enum) :
            i \in NewestCoupons(lastCall.args.plan_type_enum, lastCall.args.coupon_code)}
    ELSE {lastCall.args.donation_amount}

\* C6: for an organization plan whose coupon exists, the base_cost of the local
\* row and the amount sent to stripe.Plan.create are the price of the newest
\* version of the coupon, whatever amount the caller passed; for any other plan
\* they are the caller's amount.
C6_OrgAmountFromCoupon ==
    (/\ lastCall.op = "retrieve_or_create_recurring_donation_plan"
     /\ \/ ~lastCall.args.is_organization_plan
        \/ CouponFilter(lastCall.args.plan_type_enum, lastCall.args.coupon_code) # {})
    => /\ lastCall.goc = "created" => plans[Len(plans)].base_cost \in C6Amounts
       /\ lastCall.goc = "found"
          => \E i \in DOMAIN plans :
                /\ plans[i].donation_plan_id = lastCall.args.donation_plan_id
                /\ plans[i].voter_we_vote_id = lastCall.args.voter_we_vote_id
                /\ plans[i].base_cost \in C6Amounts
       /\ \A k \in PlanCreates :
            /\ lastCall.calls[k].amount \in C6Amounts
            /\ lastCall.goc = "created"
               => lastCall.calls[k].amount = plans[Len(plans)].base_cost

\* C6's case: an organization plan was asked for at an amount that is not the
\* coupon's price, and the call created the local row and the gateway plan
C6_Witness ==
    /\ lastCall.op = "retrieve_or_create_recurring_donation_plan"
    /\ lastCall.args.is_organization_plan
    /\ lastCall.goc = "created"
    /\ ~lastCall.raised
    /\ PlanCreates # {}
    /\ plans[Len(plans)].base_cost # lastCall.args.donation_amount
    /\ Cardinality(CouponFilter(lastCall.args.plan_type_enum, lastCall.args.coupon_code)) = 2

\* stripe.Subscription.create raised a StripeError in the last call
SubscriptionDeclined ==
    /\ lastCall.op = "create_recurring_donation"
    /\ lastCall.sub # <<>>
    /\ ~lastCall.sub[1].ok

\* C7 as stated: after a declined stripe.Subscription.create,
\* create_recurring_donation returns success = false and an empty
\* subscription_id, has called the gateway once, and its status carries the
\* message the decline-code table gives for the gateway's code.
C7_DeclineMessageFromTable ==
    SubscriptionDeclined
    => /\ ~lastCall.results.success
       /\ lastCall.results.subscription_id = ""
       /\ Cardinality(SubscriptionCreates) = 1
       /\ \E k \in DOMAIN lastCall.results.status :
            lastCall.results.status[k] = StripeCardErrorMessage(lastCall.sub[1].code)

\* C7, amended: after a declined stripe.Subscription.create,
\* create_recurring_donation returns success = false and an empty
\* subscription_id, has called the gateway once, and its status is
\* STRIPE_ERROR_IS_ + the gateway's own message + _END; and
\* retrieve_stripe_card_error_message gives the table's message for a code of
\* the table and the unknown-reason message for every other code.
C7_DeclineMessageFromGateway ==
    /\ SubscriptionDeclined
       => /\ ~lastCall.results.success
          /\ lastCall.results.subscription_id = ""
          /\ Cardinality(SubscriptionCreates) = 1
          /\ lastCall.results.status =
                <<"STRIPE_ERROR_IS_", lastCall.sub[1].message, "_END">>
    /\ lastCall.op = "retrieve_stripe_card_error_message"
       => lastCall.message =
             IF lastCall.error_type \in CardErrorCodes
             THEN CardErrorMessage(lastCall.error_type)
             ELSE UnknownCardErrorMessage

\* C7's case: the gateway declined the subscription with a code the table lacks
C7_Witness ==
    /\ SubscriptionDeclined
    /\ lastCall.sub[1].code \notin CardErrorCodes
    /\ ~lastCall.results.success

\* C8: update_journal_entry_for_refund changes a journal row only for a
\* succeeded refund of an amount above zero whose charge matches a row, and then
\* sets that row's stripe_status to 'refund pending' and its amount_refunded to
\* the refund's amount; for a refund without a matching row, a refund that has
\* not succeeded or a refund of amount zero it changes no row, raises nothing
\* and returns "False".
C8_RefundFailureIsReturned ==
    [][lastCall'.op = "update_journal_entry_for_refund"
       => LET r == lastCall'.refund
              m == JournalByChargeAndVoter(lastCall'.charge, lastCall'.voter_we_vote_id)
              good == r # <<>> /\ r[1].amount > 0 /\ r[1].status = "succeeded"
          IN  /\ (good /\ Cardinality(m) = 1)
                 => \A i \in m :
                      /\ lastCall'.returned = "True"
                      /\ journal'[i].stripe_status = "refund pending"
                      /\ journal'[i].amount_refunded = r[1].amount
                      /\ \A j \in DOMAIN journal : j # i => journal'[j] = journal[j]
              /\ (~good \/ m = {})
                 => /\ journal' = journal
                    /\ lastCall'.raised = ""
                    /\ lastCall'.returned = "False"]_vars

\* C9: over any sequence of refund, refund-completed and already-refunded folds,
\* a journal row whose stripe_status is 'refunded' never has the stripe_status
\* 'refund pending' afterwards.
C9_RefundedNeverPendingAgain ==
    [][\A i \in DOMAIN journal :
          journal[i].stripe_status = "refunded"
          => journal'[i].stripe_status # "refund pending"]_vars

\* how many already-refunded clauses a status text holds
AlreadyRefundedClauses(status) ==
    Cardinality({kp \in {<<k, p>> : k \in DOMAIN status, p \in 1..StatusWidth} :
                    /\ kp[2] \in DOMAIN status[kp[1]]
                    /\ status[kp[1]][kp[2]] = "CHARGE_WAS_ALREADY_REFUNDED_"})

\* C10 as stated: after update_journal_entry_for_already_refunded on a row that
\* was 'refunded', the row's amount_refunded is its amount, its stripe_status
\* is 'refunded' and its status text holds exactly one already-refunded clause.
C10_ExactlyOneAlreadyRefundedClause ==
    [][(/\ lastCall'.op = "update_journal_entry_for_already_refunded"
        /\ lastCall'.returned = "True"
        /\ journal[lastCall'.row_id].stripe_status = "refunded")
       => /\ journal'[lastCall'.row_id].amount_refunded = journal[lastCall'.row_id].amount
          /\ journal'[lastCall'.row_id].stripe_status = "refunded"
          /\ AlreadyRefundedClauses(journal'[lastCall'.row_id].status) = 1]_vars

\* C10, amended: update_journal_entry_for_already_refunded on a row that was
\* 'refunded' leaves the row's amount, sets amount_refunded to it and leaves
\* stripe_status 'refunded', and changes no other row; but every call appends
\* one more already-refunded clause: the status text holds one clause more than
\* before when the appended text fits the 255 characters, and at most one more
\* when it had to be cut.
C10_AlreadyRefundedAppendsEachTime ==
    [][(/\ lastCall'.op = "update_journal_entry_for_already_refunded"
        /\ lastCall'.returned = "True"
        /\ journal[lastCall'.row_id].stripe_status = "refunded")
       => LET i == lastCall'.row_id
              before == AlreadyRefundedClauses(journal[i].status)
              after == AlreadyRefundedClauses(journal'[i].status)
          IN  /\ journal'[i].amount = journal[i].amount
              /\ journal'[i].amount_refunded = journal[i].amount
              /\ journal'[i].stripe_status = "refunded"
              /\ \A j \in DOMAIN journal : j # i => journal'[j] = journal[j]
              /\ IF JoinedLen(AppendClause(journal[i].status, AlreadyRefundedClause, FALSE))
                       <= StatusWidth
                 THEN after = before + 1
                 ELSE after <= before + 1]_vars

\* C10's case: the already-refunded correction was applied again to a row that
\* held its clause already, and the row now holds the clause twice
C10_Witness ==
    /\ lastCall.op = "update_journal_entry_for_already_refunded"
    /\ lastCall.returned = "True"
    /\ journal[lastCall.row_id].stripe_status = "refunded"
    /\ journal[lastCall.row_id].amount_refunded = journal[lastCall.row_id].amount
    /\ AlreadyRefundedClauses(journal[lastCall.row_id].status) = 2

\* the last string of a status text
LastPiece(status) ==
    IF status = <<>> THEN ""
    ELSE status[Len(status)][Len(status[Len(status)])]

\* C11: update_journal_entry_for_refund_completed, when one journal row has
\* exactly the charge_id asked for, returns "True", sets that row's
\* stripe_status to 'refunded' and appends the completion clause to its status
\* (the whole clause when the text fits the 255 characters), changing nothing
\* else; when no row has that charge_id it returns "False", raises nothing and
\* changes no row.
C11_RefundCompletedOrReportedFailure ==
    [][lastCall'.op = "update_journal_entry_for_refund_completed"
       => LET m == {i \in DOMAIN journal : journal[i].charge_id = lastCall'.charge}
          IN  /\ Cardinality(m) = 1
                 => \A i \in m :
                      LET appended == AppendClause(journal[i].status, RefundCompletedClause, FALSE)
                      IN  /\ lastCall'.returned = "True"
                          /\ journal'[i].stripe_status = "refunded"
                          /\ JoinedLen(appended) <= StatusWidth
                             => journal'[i].status = appended
                          /\ journal' = [journal EXCEPT ![i] =
                                            [@ EXCEPT !.stripe_status = "refunded",
                                                      !.status = journal'[i].status]]
              /\ m = {}
                 => /\ lastCall'.returned = "False"
                    /\ lastCall'.raised = ""
                    /\ journal' = journal]_vars

\* C11's case: no row has the charge_id asked for, although a row has it in
\* another case, and the call returned "False"
C11_Witness ==
    /\ lastCall.op = "update_journal_entry_for_refund_completed"
    /\ lastCall.returned = "False"
    /\ \E i \in DOMAIN journal : IExact(journal[i].charge_id, lastCall.charge)

\* the three folds of a refund into a journal row
RefundFolds ==
    {"update_journal_entry_for_refund", "update_journal_entry_for_already_refunded",
     "update_journal_entry_for_refund_completed"}

\* the text a fold puts together before it is shortened
FoldAppended(call, status) ==
    IF call.op = "update_journal_entry_for_refund"
    THEN AppendClause(status, RefundRequestedClause(call.refund[1]), TRUE)
    ELSE IF call.op = "update_journal_entry_for_already_refunded"
    THEN AppendClause(status, AlreadyRefundedClause, FALSE)
    ELSE AppendClause(status, RefundCompletedClause, FALSE)

\* C12: the status a refund, already-refunded or refund-completed fold stores
\* is at most 255 characters long, and when the appended text was longer than
\* that the stored status ends with the placeholder "...".
C12_StatusWithinWidth ==
    [][(lastCall'.op \in RefundFolds /\ lastCall'.returned = "True")
       => LET i == lastCall'.row_id
          IN  /\ JoinedLen(journal'[i].status) <= StatusWidth
              /\ JoinedLen(FoldAppended(lastCall', journal[i].status)) > StatusWidth
                 => LastPiece(journal'[i].status) = Placeholder]_vars

\* C12's case: the last fold had to cut the text, and the stored status ends
\* with the placeholder
C12_Witness ==
    /\ lastCall.op \in RefundFolds
    /\ lastCall.returned = "True"
    /\ LastPiece(journal[lastCall.row_id].status) = Placeholder
    /\ JoinedLen(journal[lastCall.row_id].status) <= StatusWidth

\* C13: when update_subscription_with_latest_charge_date finds no invoice of
\* the invoice_id at its first lookup, it waits once and looks the invoice up
\* exactly once more, and when that finds nothing either it returns without
\* raising and without changing a journal or invoice row.
C13_OneRetryThenSwallowed ==
    [][(/\ lastCall'.op = "update_subscription_with_latest_charge_date"
        /\ InvoicesById(lastCall'.invoice_id) = {})
       => /\ lastCall'.slept
          /\ lastCall'.lookups = 2
          /\ lastCall'.raised = ""
          /\ journal' = journal
          /\ invoices' = invoices]_vars

\* C14: when update_subscription_with_latest_charge_date is called for an
\* invoice_id that is not staged yet and update_donation_invoice stages it
\* right after the failed lookup, last_charged is set on the
\* SUBSCRIPTION_SETUP_AND_INITIAL journal row of the invoice's subscription.
C14_LateInvoiceStillFolded ==
    [][(/\ lastCall.op = "update_subscription_with_latest_charge_date"
        /\ lastCall.raised = "DoesNotExist"
        /\ lastCall'.op = "update_donation_invoice"
        /\ lastCall'.raised = ""
        /\ lastCall'.row.invoice_id = lastCall.invoice_id
        /\ Cardinality(SubscriptionSetupRows(lastCall'.row.subscription_id)) = 1)
       => \A i \in SubscriptionSetupRows(lastCall'.row.subscription_id) :
            journal'[i].last_charged = FromTimestamp(lastCall.invoice_date)]_vars

\* the invoices of a table dated after now - 10 days
InvoicesWithinDays(table, now) ==
    SelectSeq(table, LAMBDA r : r.invoice_date > now - HowManyDays)

C16_NothingToMove ==
    [][(/\ lastCall'.op = "move_donations_between_donors"
        /\ JournalByVoter(lastCall'.from_id) = {})
       => /\ ~lastCall'.results.success
          /\ \E k \in DOMAIN lastCall'.results.status :
                lastCall'.results.status[k] = " NO-DONATIONS-TO-MOVE-FROM-"
          /\ journal' = journal]_vars

\* C16's case: the journal has rows, none of them of the voter the move was
\* asked from, and the move reported that it found nothing
C16_Witness ==
    /\ lastCall.op = "move_donations_between_donors"
    /\ lastCall.handled = "DoesNotExist"
    /\ ~lastCall.results.success
    /\ journal # <<>>
    /\ JournalByVoter(lastCall.from_id) = {}

\* C17: move_donations_between_donors for a voter who has one or more journal
\* rows reports success and leaves every row of that voter with the
\* voter_we_vote_id of the other voter, and nothing else changed.
C17_EveryRowMoved ==
    [][(/\ lastCall'.op = "move_donations_between_donors"
        /\ JournalByVoter(lastCall'.from_id) # {})
       => /\ lastCall'.results.success
          /\ journal' = [i \in DOMAIN journal |->
                            IF i \in JournalByVoter(lastCall'.from_id)
                            THEN [journal[i] EXCEPT !.voter_we_vote_id = lastCall'.to_id]
                            ELSE journal[i]]]_vars

\* retrieve_donation_journal_list was called for the voter of the journal row
\* that the call before it created
ListRightAfterCreate ==
    /\ lastCall.op = "create_donation_journal_entry"
    /\ lastCall.raised = ""
    /\ lastCall'.op = "retrieve_donation_journal_list"
    /\ IExact(lastCall.row.voter_we_vote_id, lastCall'.we_vote_id)

\* C18 as stated: retrieve_donation_journal_list right after a successful
\* create_donation_journal_entry for the same voter returns a list whose first
\* element is the row just created (stated for a new row whose created no
\* other row of the voter has, so that the order of the list is determined).
C18_NewEntryFirst ==
    [][(/\ ListRightAfterCreate
        /\ \A i \in JournalByVoter(lastCall'.we_vote_id) \ {lastCall.history_entry_saved} :
              journal[i].created # lastCall.row.created)
       => /\ lastCall'.results.voters_donation_list # <<>>
          /\ lastCall'.results.voters_donation_list[1] = lastCall.history_entry_saved]_vars

\* C18, amended: retrieve_donation_journal_list right after a successful
\* create_donation_journal_entry for the same voter returns success and a list
\* of exactly the voter's rows, the new row among them, in which no row comes
\* before a row of a later created; the new row is the first element when its
\* created is later than that of every other row of the voter.
C18_ListedByCreated ==
    [][ListRightAfterCreate
       => LET list == lastCall'.results.voters_donation_list
              new == lastCall.history_entry_saved
              m == JournalByVoter(lastCall'.we_vote_id)
          IN  /\ lastCall'.results.success
              /\ {list[k] : k \in DOMAIN list} = m
              /\ Len(list) = Cardinality(m)
              /\ new \in m
              /\ \A a, b \in DOMAIN list :
                    a < b => journal[list[a]].created >= journal[list[b]].created
              /\ (\A i \in m \ {new} : journal[new].created > journal[i].created)
                 => list[1] = new]_vars

\* C18's case: the row appended last is in the list of its voter, after a row
\* that was appended before it and has a later created
C18_Witness ==
    /\ lastCall.op = "retrieve_donation_journal_list"
    /\ Len(lastCall.results.voters_donation_list) >= 2
    /\ lastCall.results.voters_donation_list[2] = Len(journal)
    /\ journal[lastCall.results.voters_donation_list[1]].created > journal[Len(journal)].created

\* C19: check_for_subscription_in_db_without_card_info returns the id of the
\* newest journal row of the plan whose last4 is 0, whether or not that row is
\* the newest row of the plan, and -1 only when no row of the plan has last4 = 0.
C19_NewestIncompleteRow ==
    lastCall.op = "check_for_subscription_in_db_without_card_info"
    => LET zeros == {i \in JournalByPlan(lastCall.plan_id) : journal[i].last4 = 0}
       IN  lastCall.row_id = IF zeros = {} THEN -1 ELSE SetMax(zeros)

\* C20: find_we_vote_voter_id_for_stripe_customer returns the voter_we_vote_id
\* of the newest row of the customer that is a SUBSCRIPTION_SETUP_AND_INITIAL
\* record with a voter_we_vote_id and no not_loggedin_voter_we_vote_id, also
\* when a newer row has a not_loggedin_voter_we_vote_id; without such a row, the
\* not_loggedin_voter_we_vote_id of the newest row that has one; otherwise "".
C20_SetupRowWins ==
    lastCall.op = "find_we_vote_voter_id_for_stripe_customer"
    => LET rows == {i \in DOMAIN journal :
                      journal[i].stripe_customer_id = lastCall.stripe_customer_id}
           setups == {i \in rows :
                        /\ journal[i].record_enum = "SUBSCRIPTION_SETUP_AND_INITIAL"
                        /\ journal[i].voter_we_vote_id # ""
                        /\ journal[i].not_loggedin_voter_we_vote_id = None}
           anonymous == {i \in rows : journal[i].not_loggedin_voter_we_vote_id # None}
       IN  /\ setups # {} => lastCall.returned = journal[SetMax(setups)].voter_we_vote_id
           /\ (setups = {} /\ anonymous # {})
              => lastCall.returned = journal[SetMax(anonymous)].not_loggedin_voter_we_vote_id
           /\ (setups = {} /\ anonymous = {}) => lastCall.returned = ""

\* C20's case: the customer's newest row has a not_loggedin_voter_we_vote_id,
\* an older row is a logged in setup row, and the setup row's voter is returned
C20_Witness ==
    /\ lastCall.op = "find_we_vote_voter_id_for_stripe_customer"
    /\ \E i, j \in JournalByCustomer(lastCall.stripe_customer_id) :
         /\ i < j
         /\ IsLoggedInSetupRow(journal[i])
         /\ journal[j].not_loggedin_voter_we_vote_id # None
         /\ lastCall.returned = journal[i].voter_we_vote_id
         /\ lastCall.returned # journal[j].not_loggedin_voter_we_vote_id

\* C21: mark_subscription_canceled_or_ended returns true and sets
\* subscription_ended_at and subscription_canceled_at on a journal row that
\* matches (subscription_id, customer_id), leaving every other row and every
\* other field as they were, whenever a row matches; when no row matches it
\* returns false and changes no row.  (Stated for a journal in which no two
\* rows are the setup row of one subscription.)
C21_MarksTheMatchingRow ==
    [][(/\ lastCall'.op = "mark_subscription_canceled_or_ended"
        /\ \A i, k \in DOMAIN journal :
              (/\ i # k
               /\ journal[i].subscription_id = journal[k].subscription_id
               /\ journal[i].record_enum = "SUBSCRIPTION_SETUP_AND_INITIAL")
              => journal[k].record_enum # "SUBSCRIPTION_SETUP_AND_INITIAL")
       => LET m == {i \in DOMAIN journal :
                      /\ journal[i].subscription_id = lastCall'.subscription_id
                      /\ journal[i].stripe_customer_id = lastCall'.customer_id}
          IN  IF m # {}
              THEN /\ lastCall'.returned
                   /\ \E i \in m :
                        journal' = [journal EXCEPT ![i] =
                          [@ EXCEPT !.subscription_ended_at =
                                        FromTimestamp(lastCall'.subscription_ended_at),
                                    !.subscription_canceled_at =
                                        FromTimestamp(lastCall'.subscription_canceled_at)]]
              ELSE ~lastCall'.returned /\ journal' = journal]_vars

\* C22: what is expected to be absent is not reported as an error:
\* retrieve_donation_journal_list for a voter without a journal row returns
\* an empty list with success = true, validate_coupon for a pair without a
\* coupon row returns no match and no price with success = true, and
\* check_for_subscription_in_db_without_card_info for a plan without a row
\* whose last4 is 0 returns no row (-1).
C22_AbsenceIsNotAnError ==
    /\ (/\ lastCall.op = "retrieve_donation_journal_list"
        /\ \A i \in DOMAIN journal : ~IExact(journal[i].voter_we_vote_id, lastCall.we_vote_id))
       => /\ lastCall.results.voters_donation_list = <<>>
          /\ lastCall.results.success
    /\ (/\ lastCall.op = "validate_coupon"
        /\ \A i \in DOMAIN coupons :
              \/ coupons[i].plan_type_enum # lastCall.plan_type_enum
              \/ coupons[i].coupon_code # lastCall.coupon_code)
       => /\ ~lastCall.results.coupon_match_found
          /\ lastCall.results.monthly_price_stripe = 0
          /\ lastCall.results.annual_price_stripe = 0
          /\ lastCall.results.success
    /\ (/\ lastCall.op = "check_for_subscription_in_db_without_card_info"
        /\ \A i \in DOMAIN journal :
              journal[i].subscription_plan_id = lastCall.plan_id => journal[i].last4 # 0)
       => lastCall.row_id = -1

\* the catalog table holds a row of each of the three seed pairs
SeedsPresent(table) ==
    \A p \in {<<"DEFAULT-ENTERPRISE_MONTHLY", ENTERPRISE_MONTHLY>>,
              <<"DEFAULT-PROFESSIONAL_MONTHLY", PROFESSIONAL_MONTHLY>>,
              <<"25OFF", PROFESSIONAL_MONTHLY>>} :
        \E i \in DOMAIN table : table[i].coupon_code = p[1] /\ table[i].plan_type_enum = p[2]

\* C23: from any catalog, create_initial_coupons returns with a row of each of
\* its three seed pairs in the catalog; a call after a call inserts and changes
\* no row; and retrieve_subscription_plan_list, which calls it first, returns a
\* list that is not empty.
C23_SeedsOnceFromAnyCatalog ==
    [][/\ lastCall'.op = "create_initial_coupons"
          => /\ lastCall'.raised = ""
             /\ SeedsPresent(coupons')
             /\ lastCall.op = "create_initial_coupons" => coupons' = coupons
       /\ lastCall'.op = "retrieve_subscription_plan_list"
          => /\ lastCall'.raised = ""
             /\ SeedsPresent(coupons')
             /\ lastCall'.results.subscription_plan_list # <<>>
             /\ lastCall'.results.success]_vars

PlanCreatedLocallyOnly ==
    /\ lastCall.op = "retrieve_or_create_recurring_donation_plan"
    /\ lastCall.goc = "created"
    /\ PlanCreates # {}
    /\ lastCall.raised \/ ~lastCall.results.success

\* what C25 says of the call that follows (the primed state) a call that left
\* the local row of its plan without a gateway plan
PlanResolvedAgain ==
    /\ lastCall'.goc = "found"
    /\ plans' = plans
    /\ \E k \in DOMAIN lastCall'.calls :
          /\ lastCall'.calls[k].api = "Plan.create"
          /\ lastCall'.calls[k].id = lastCall.args.donation_plan_id
    /\ (\E p \in stripePlans' : p.id = lastCall.args.donation_plan_id)
       => /\ ~lastCall'.raised
          /\ lastCall'.results.success
          /\ Cardinality({i \in DOMAIN plans' :
                plans'[i].donation_plan_id = lastCall.args.donation_plan_id}) = 1

C26_NoClauseLost ==
    [][(/\ lastCall'.op \in RefundFolds
        /\ lastCall'.step = "save")
       => LET i == lastCall'.row_id
          IN  /\ journal'[i].status = Shorten(FoldAppended(lastCall', journal[i].status))
              /\ journal'[i].stripe_status =
                    IF lastCall'.op = "update_journal_entry_for_refund"
                    THEN "refund pending" ELSE "refunded"]_vars

\* the amount a plan id names: its last part, str(donation_amount)
PlanIdAmount(donation_plan_id) == donation_plan_id[Len(donation_plan_id)]

\* C27 as stated: for every plan created through create_recurring_donation, personal or
\* of an organization, the amount that ends the plan id is the base_cost of
\* the local row and the amount of the gateway's plan.
C27_PlanIdNamesTheAmount ==
    /\ \A i \in DOMAIN plans :
          PlanIdAmount(plans[i].donation_plan_id) = ToString(plans[i].base_cost)
    /\ \A p \in stripePlans : PlanIdAmount(p.id) = ToString(p.amount)

\* C27, amended: the amount that ends the plan id is the base_cost of the
\* local row and the amount of the gateway's plan for a personal plan; for any
\* plan, the gateway's plan of a local row's id has the row's base_cost as its
\* amount (for an organization plan that is the coupon's price, which the plan
\* id, built from the caller's amount, need not name).
C27_PersonalPlanIdNamesTheAmount ==
    /\ \A i \in DOMAIN plans :
          ~plans[i].is_organization_plan
          => PlanIdAmount(plans[i].donation_plan_id) = ToString(plans[i].base_cost)
    /\ \A p \in stripePlans :
          /\ p.id[3] = "" => PlanIdAmount(p.id) = ToString(p.amount)
          /\ \A i \in DOMAIN plans : plans[i].donation_plan_id = p.id => p.amount = plans[i].base_cost

\* C27's case: create_recurring_donation created the local row and the gateway
\* plan of an organization, at the coupon's price, under a plan id that names
\* the caller's amount
C27_Witness ==
    /\ lastCall.op = "create_recurring_donation"
    /\ lastCall.args.is_organization_plan
    /\ lastCall.goc = "created"
    /\ \E p \in stripePlans :
          /\ p.id = lastCall.args.donation_plan_id
          /\ p.amount = plans[Len(plans)].base_cost
          /\ PlanIdAmount(p.id) # ToString(p.amount)
          /\ PlanIdAmount(p.id) = ToString(lastCall.args.donation_amount)
    /\ \E i \in DOMAIN plans :
          /\ ~plans[i].is_organization_plan
          /\ StripeHasPlan(plans[i].donation_plan_id)

\* C28: update_subscription_with_latest_charge_date changes the journal only
\* by setting last_charged on a row that has the subscription_id of the staged
\* invoice and the record_enum SUBSCRIPTION_SETUP_AND_INITIAL: it creates and
\* deletes no journal row and changes no other row and no other column; and
\* when no row is the setup row of that subscription, the journal and the
\* invoice cache are left as they were.
C28_OnlyLastChargedOfTheSetupRow ==
    [][lastCall'.op = "update_subscription_with_latest_charge_date"
       => /\ \/ journal' = journal
             \/ \E i \in DOMAIN journal :
                  /\ journal[i].record_enum = "SUBSCRIPTION_SETUP_AND_INITIAL"
                  /\ \E g \in DOMAIN invoices :
                        /\ invoices[g].invoice_id = lastCall'.invoice_id
                        /\ invoices[g].subscription_id = journal[i].subscription_id
                  /\ journal' = [journal EXCEPT ![i].last_charged = FromTimestamp(lastCall'.invoice_date)]
          /\ (\A g \in DOMAIN invoices :
                invoices[g].invoice_id = lastCall'.invoice_id
                => \A i \in DOMAIN journal :
                      \/ journal[i].subscription_id # invoices[g].subscription_id
                      \/ journal[i].record_enum # "SUBSCRIPTION_SETUP_AND_INITIAL")
             => journal' = journal /\ invoices' = invoices]_vars

\* C28's case: a call found the staged invoice and no setup row of its
\* subscription, although the journal has another row of that subscription
C28_WitnessNoSetupRow ==
    /\ lastCall.op = "update_subscription_with_latest_charge_date"
    /\ lastCall.raised = ""
    /\ lastCall.handled = "DoesNotExist"
    /\ invoices # <<>>
    /\ \E i \in DOMAIN journal : journal[i].subscription_id = "sub_1"

\* C28's other case: a call set last_charged on the setup row, beside a row
\* of an automatic payment of the same subscription, which it left alone
C28_WitnessWritten ==
    /\ lastCall.op = "update_subscription_with_latest_charge_date"
    /\ lastCall.row_id # 0
    /\ journal[lastCall.row_id].last_charged = FromTimestamp(lastCall.invoice_date)
    /\ \E i \in DOMAIN journal :
          /\ journal[i].record_enum = "PAYMENT_AUTO_SUBSCRIPTION"
          /\ journal[i].last_charged = NoDate

====
